---- MODULE Spec2Model ----
(***************************************************************************)
(* Model of the Preempt pipeline: the Collector (cmd/collect), the Stream  *)
(* Persister (cmd/store), the ML request/response exchange of the Hybrid   *)
(* Detector (internal/detector, getMLAnomalies) and the Detector's worker  *)
(* pool (cmd/detect).  Each component has its own specification over the   *)
(* shared variable tuple; the variables of the other components stay at    *)
(* their idle values.                                                      *)
(***************************************************************************)
EXTENDS Integers, Sequences, FiniteSets, TLC

\* ---------------------------------------------------------------- bounds
\* locations of one Collector run
NumLocations == 3
\* envelopes published to the ingest stream
MaxPublish == 3
\* XReadGroup errors the Persister sees
MaxReadErrors == 1
\* entries ever appended to the ml_output stream
MaxOut == 11
\* entries on ml_output before the job probes it
MaxStale == 1
\* responses carrying the job's own job_id
MaxOwn == 1
\* entries of ml_output that do not parse
MaxBad == 1
\* locations of one Detector run
NumDetectLocations == 2
\* anomalies a pass returns for a location when it finds any
MaxAnomalies == 2
\* suggestions derived for a location when there are any
MaxSuggestions == 2
\* rows of the metrics table that reference one location
MaxRows == 2
\* timestamps of the hourly series of a historical envelope
HourlySamples == 2
\* envelopes published beyond the stream's MAXLEN before the Persister starts
BacklogExcess == 11
\* messages the Persister processes in the backlog scenario
MaxBacklogProcessed == 4
\* greatest standard deviation of a baseline
MaxStdDev == 2
\* greatest distance of a recent value from zero
MaxDeviation == 5
\* recent values of one metric type
MaxRecent == 2
\* anomalies of one metric type handed to SuggestAlarms
MaxGroup == 3
\* records of the seed file after the header
MaxSeedRows == 3
\* timestamps of the hourly series handed to StoreMetrics
MaxTimes == 2
\* locations of the Detector run whose ML exchanges share the streams
NumRunLocations == 2
\* seconds that pass during the Detector run
MaxTicks == 1
\* observations one pass or one ML response flags
MaxFlagged == 1
\* the unix second at which the Detector run starts
RunSecond == 99
\* rows the HTTP handler inserts into the anomalies table during a run
MaxServerRows == 1

\* ------------------------------------------------------ program constants
maxConcurrentRequests == 2
maxRetries == 3
ReadGroupCount == 10
IngestMaxLen == 1000
MinMLMetrics == 10
MLReadCount == 10
MLMaxLen == 500
defaultWorkers == 50
minAnomaliesForSuggestion == 3

VARIABLES
  \* Collector (cmd/collect/main.go)
  cpc,            \* per location: "waiting" | "fetching" | "publishing" |
                  \* "returning" | "sleeping" | "done"
  semaphore,      \* number of slots taken in the semaphore channel
  attempt,        \* per location: loop variable attempt
  locationsWithData, \* the set read by GetLocationsWithData at start
  calls,          \* per location: upstream API calls made so far
  slept,          \* per location: seconds slept in backoff so far
  taskResult,     \* per location: "none" | "published" | "publishFailed" | "failed"
  collectorExited,\* wg.Wait() returned and main ended
  metricsRows,    \* rows of the metrics table when the run starts
  fetchModes,     \* per location: the modes its upstream calls were made in
  lastErr,        \* per location: "none" | "rateLimit" | "other", last failure
  inflight,       \* per location: upstream calls started and not yet returned
  acquired,       \* per location: sends on the semaphore channel by its task
  released,       \* per location: receives from the semaphore channel by its task
  \* ingest stream and its consumer group (Redis)
  ingest,         \* sequence of stream entries [id, kind, loc, type]
  ingestNext,     \* next entry id of the ingest stream
  groupLast,      \* last-delivered-id of group weather_consumers
  pel,            \* pending entries list of the group (set of ids)
  produced,       \* ids of the envelopes a Collector's XAdd put on the stream
  \* Persister (cmd/store/main.go)
  ppc,            \* "read" | "check" | "proc" | "insert" | "ack" | "trim" |
                  \* "exited" | "panicked"
  batch,          \* messages of the current XReadGroup reply still to process
  cancelled,      \* ctx.Err() != nil
  readErrors,     \* XReadGroup errors so far
  deliveries,     \* per entry id: how often XReadGroup delivered it
  metricsStored,  \* ids whose StoreMetrics call returned nil
  storeFailed,    \* ids whose StoreMetrics call returned an error
  decodeFailed,   \* ids whose envelope or forecast failed to unmarshal
  acked,          \* ids acknowledged with XAck
  obsTable,       \* rows of the metrics table written by StoreMetrics, each
                  \* tagged with the id of the message it came from
  insertsDone,    \* per entry id: inserts of its last StoreMetrics call that
                  \* succeeded
  \* ML request/response exchange of one job (getMLAnomalies)
  mpc,            \* "start" | "probe" | "publish" | "select" | "read" |
                  \* "trimIn" | "trimOut" | "done"
  mlMetrics,      \* len(metrics) read from the store
  mlIn,           \* the ml_input stream: sequence of requests
  mlOut,          \* the ml_output stream: sequence of entries [id, job]
  mlOutNext,      \* next entry id of ml_output
  lastID,         \* the cursor; 0 stands for "0-0"
  tailAtProbe,    \* greatest id on ml_output when the cursor was probed
  deadline,       \* the 60 s timeout channel is ready
  mlResult,       \* "none" | "skipped" | "error" | "ok" | "timeout"
  acceptedId,     \* id of the accepted response, 0 if none
  acceptedJob,    \* job_id of the accepted response
  maxInspected,   \* greatest id the wait loop has decoded, 0 if none
  reinspected,    \* the wait loop decoded some entry a second time
  ownInTime,      \* a response with the own job_id was appended before the deadline
  sinkAborted,    \* the consumer of the job's result has aborted
  \* Detector worker pool (cmd/detect/main.go)
  dpc,            \* main routine: "produce" | "collect" | "store" |
                  \* "suggest" | "done"
  pushed,         \* locations sent on the jobs channel so far
  jobs,           \* buffer of the jobs channel
  jobsClosed,     \* close(jobs) was called
  results,        \* buffer of the results channel
  resultsClosed,  \* close(results) was called
  wpc,            \* per worker: "idle" | "detecting" | "exited"
  wjob,           \* per worker: the location it is detecting, 0 if none
  anomTable,      \* rows of the anomalies table
  suggTable,      \* rows of the alarm_suggestions table
  totalAnomalies,
  totalSuggestions,
  totalErrors,
  locationCount,
  returned,       \* per location: what DetectAnomalies returned, once done
  insertFailed,   \* locations whose StoreAnomalies call returned an error
  taken,          \* per location: times a worker received it from jobs
  sent,           \* per location: DetectionResults sent for it
  sendOnClosed,   \* a worker sent on the results channel after close(results)
  storeCalls,     \* per location: StoreAnomalies calls made for its result
  statsDiscarded, \* some detection found statistical anomalies and then failed
  suggSkipped,    \* some suggestion of a result whose batch was stored was
                  \* never handed to StoreAlarmSuggestion
  loopResult,     \* the result the loop body is working on, with the index
                  \* of its next suggestion
  \* the z-score pass of getStatsAnomalies over one metric type
  zpc,            \* "start" | "loop" | "done"
  baseMean,       \* mean of the 7-day baseline
  baseStdDev,     \* sample standard deviation of the baseline
  recent,         \* the values of the last 24 hours still to check
  checked,        \* the values checked so far, each with IsOutlier's answer
  statAnomalies,  \* the anomalies appended so far
  \* AlarmSuggester.SuggestAlarms (internal/detector/suggester.go)
  gpc,            \* "start" | "range" | "done"
  sgAnomalies,    \* the argument: sequence of anomalies [metricType, value]
  anomaliesByType,\* the map built by the grouping loop
  pendingTypes,   \* keys of the map the range loop has not visited yet
  suggestions,    \* the suggestions appended so far
  \* the seed import of the locations table (InsertLocation)
  seedpc,         \* "loop" | "done" | "fatal"
  csvRows,        \* the records of the CSV file after the header
  csvPos,         \* records read so far
  locations,      \* rows of the locations table
  seedCount,      \* the variable count
  seedSkipped,    \* the variable skipped
  callLog,        \* the InsertLocation calls made, with what each returned
  \* one call of DB.StoreMetrics (internal/database/db.go)
  spc,            \* "call" | "done"
  stForecast,     \* the argument forecast
  stFields,       \* the argument fields
  stInitial,      \* the argument isInitial
  stFailAt,       \* the insert at which the database fails, 0 for none
  stResult,       \* what the call returned and the table after it
  \* the ML exchanges of one Detector run over its locations
  runClock,       \* time.Now().Unix()
  rpc,            \* per location: "start" | "probe" | "publish" | "wait" |
                  \* "trimIn" | "trimOut" | "done"
  runJob,         \* per location: the jobID of its request, <<>> before
  runCursor,      \* per location: lastID, 0 for "0-0"
  requests,       \* the entries of ml_input
  responses,      \* the entries of ml_output
  answered,       \* the locations whose request the ML worker has answered
  accepted,       \* per location: ids of the responses it accepted
  \* one DetectAnomalies call and the write of its result (detect/main.go)
  apc,            \* "stats" | "ml" | "wait" | "return" | "store" | "done"
  passLocation,   \* the argument location
  observations,   \* rows of the metrics table
  statsReturned,  \* getStatsAnomalies has returned
  statsFound,     \* stats_anomalies: the list getStatsAnomalies returned
  mlRequest,      \* the metrics of the published request, <<>> before
  mlResponse,     \* the anomalies of the response, with a flag for none yet
  mlFound,        \* ml_anomalies: the list getMLAnomalies returned
  passResult,     \* what DetectAnomalies returned, with a flag for not yet
  anomaliesWritten \* rows of the anomalies table

collectVars == <<cpc, semaphore, attempt, locationsWithData, calls, slept,
                 taskResult, collectorExited, metricsRows, fetchModes,
                 lastErr, inflight, acquired, released>>
streamVars == <<ingest, ingestNext, groupLast, pel, produced>>
persistVars == <<ppc, batch, cancelled, readErrors, deliveries, metricsStored,
                 storeFailed, decodeFailed, acked, obsTable, insertsDone>>
mlVars == <<mpc, mlMetrics, mlIn, mlOut, mlOutNext, lastID, tailAtProbe,
            deadline, mlResult, acceptedId, acceptedJob, maxInspected, reinspected,
            ownInTime, sinkAborted>>
detectVars == <<dpc, pushed, jobs, jobsClosed, results, resultsClosed, wpc,
                wjob, anomTable, suggTable, totalAnomalies, totalSuggestions,
                totalErrors, locationCount, returned, insertFailed, taken,
                sent, sendOnClosed, storeCalls, statsDiscarded, suggSkipped, loopResult>>
statsVars == <<zpc, baseMean, baseStdDev, recent, checked, statAnomalies>>
suggestVars == <<gpc, sgAnomalies, anomaliesByType, pendingTypes, suggestions>>
seedVars == <<seedpc, csvRows, csvPos, locations, seedCount, seedSkipped,
              callLog>>
storeVars == <<spc, stForecast, stFields, stInitial, stFailAt, stResult>>
runVars == <<runClock, rpc, runJob, runCursor, requests, responses, answered,
             accepted>>
passVars == <<apc, passLocation, observations, statsReturned, statsFound,
              mlRequest, mlResponse, mlFound, passResult, anomaliesWritten>>
callVars == <<storeVars, runVars, passVars>>
libVars == <<statsVars, suggestVars, seedVars, callVars>>
serviceVars == <<collectVars, streamVars, persistVars, mlVars, detectVars>>
vars == <<collectVars, streamVars, persistVars, mlVars, detectVars, libVars>>

Locations == 1..NumLocations
EntryIds == 1..(MaxPublish + NumLocations)
DetectLocations == 1..NumDetectLocations

\* ------------------------------------------------------------- helpers
Min(a, b) == IF a < b THEN a ELSE b
Max(a, b) == IF a > b THEN a ELSE b

\* XTRIM MAXLEN n: keep the n most recent entries
XTrimMaxLen(s, n) ==
  IF Len(s) > n THEN SubSeq(s, Len(s) - n + 1, Len(s)) ELSE s

\* the first n elements of s
Take(s, n) == SubSeq(s, 1, Min(n, Len(s)))

\* entries of stream s with an id greater than last, in stream order
RECURSIVE After(_, _)
After(s, last) ==
  IF s = <<>> THEN <<>>
  ELSE IF Head(s).id > last THEN s
  ELSE After(Tail(s), last)

SeqIds(s) == {s[i].id : i \in 1..Len(s)}

\* ------------------------------------------------------------ idle values
CollectIdle ==
  /\ cpc = [l \in Locations |-> "done"]
  /\ semaphore = 0
  /\ attempt = [l \in Locations |-> 0]
  /\ locationsWithData = {}
  /\ calls = [l \in Locations |-> 0]
  /\ slept = [l \in Locations |-> 0]
  /\ taskResult = [l \in Locations |-> "none"]
  /\ collectorExited = TRUE
  /\ metricsRows = {}
  /\ fetchModes = [l \in Locations |-> {}]
  /\ lastErr = [l \in Locations |-> "none"]
  /\ inflight = [l \in Locations |-> 0]
  /\ acquired = [l \in Locations |-> 0]
  /\ released = [l \in Locations |-> 0]

StreamEmpty ==
  /\ ingest = <<>>
  /\ ingestNext = 1
  /\ groupLast = 0
  /\ pel = {}
  /\ produced = {}

PersistIdle ==
  /\ ppc = "exited"
  /\ batch = <<>>
  /\ cancelled = FALSE
  /\ readErrors = 0
  /\ deliveries = [i \in EntryIds |-> 0]
  /\ metricsStored = {}
  /\ storeFailed = {}
  /\ decodeFailed = {}
  /\ acked = {}
  /\ obsTable = {}
  /\ insertsDone = [i \in EntryIds |-> 0]

MLIdle ==
  /\ mpc = "done"
  /\ mlMetrics = 0
  /\ mlIn = <<>>
  /\ mlOut = <<>>
  /\ mlOutNext = 1
  /\ lastID = 0
  /\ tailAtProbe = 0
  /\ deadline = FALSE
  /\ mlResult = "none"
  /\ acceptedId = 0
  /\ acceptedJob = "none"
  /\ maxInspected = 0
  /\ reinspected = FALSE
  /\ ownInTime = FALSE
  /\ sinkAborted = FALSE

\* numWorkers := 50, or len(locations) if that is smaller
numWorkers == IF NumDetectLocations < defaultWorkers
              THEN NumDetectLocations ELSE defaultWorkers
Workers == 1..numWorkers

NoLoopResult == [location |-> 0, anomalies |-> <<>>, suggestions |-> 0,
                 next |-> 0]

DetectIdle ==
  /\ dpc = "done"
  /\ pushed = 0
  /\ jobs = <<>>
  /\ jobsClosed = TRUE
  /\ results = <<>>
  /\ resultsClosed = TRUE
  /\ wpc = [w \in Workers |-> "exited"]
  /\ wjob = [w \in Workers |-> 0]
  /\ anomTable = {}
  /\ suggTable = {}
  /\ totalAnomalies = 0
  /\ totalSuggestions = 0
  /\ totalErrors = 0
  /\ locationCount = 0
  /\ returned = [l \in DetectLocations |->
                   [done |-> FALSE, err |-> FALSE, anomalies |-> <<>>]]
  /\ insertFailed = {}
  /\ taken = [l \in DetectLocations |-> 0]
  /\ sent = [l \in DetectLocations |-> 0]
  /\ sendOnClosed = FALSE
  /\ storeCalls = [l \in DetectLocations |-> 0]
  /\ statsDiscarded = FALSE
  /\ suggSkipped = FALSE
  /\ loopResult = NoLoopResult

StatsIdle ==
  /\ zpc = "done"
  /\ baseMean = 0
  /\ baseStdDev = 0
  /\ recent = <<>>
  /\ checked = <<>>
  /\ statAnomalies = <<>>

SuggestIdle ==
  /\ gpc = "done"
  /\ sgAnomalies = <<>>
  /\ anomaliesByType = <<>>
  /\ pendingTypes = {}
  /\ suggestions = {}

SeedIdle ==
  /\ seedpc = "done"
  /\ csvRows = <<>>
  /\ csvPos = 0
  /\ locations = <<>>
  /\ seedCount = 0
  /\ seedSkipped = 0
  /\ callLog = <<>>

NoForecast == [times |-> 0, badTimes |-> {}, hourly |-> <<>>, current |-> {}]
NoResult == [err |-> FALSE, table |-> {}, inserted |-> 0]

StoreIdle ==
  /\ spc = "done"
  /\ stForecast = NoForecast
  /\ stFields = <<>>
  /\ stInitial = FALSE
  /\ stFailAt = 0
  /\ stResult = NoResult

RunIdle ==
  /\ runClock = 0
  /\ rpc = <<>>
  /\ runJob = <<>>
  /\ runCursor = <<>>
  /\ requests = <<>>
  /\ responses = <<>>
  /\ answered = {}
  /\ accepted = <<>>

NoResponse == [arrived |-> FALSE, anomalies |-> <<>>]

\* DetectAnomalies has not returned
NoPassResult == [returned |-> FALSE, err |-> FALSE, anomalies |-> <<>>]

PassIdle ==
  /\ apc = "done"
  /\ passLocation = 0
  /\ observations = {}
  /\ statsReturned = FALSE
  /\ statsFound = <<>>
  /\ mlRequest = <<>>
  /\ mlResponse = NoResponse
  /\ mlFound = <<>>
  /\ passResult = NoPassResult
  /\ anomaliesWritten = {}

CallIdle == StoreIdle /\ RunIdle /\ PassIdle

LibIdle == StatsIdle /\ SuggestIdle /\ SeedIdle /\ CallIdle

\* ============================================================ Collector
Modes == {"historical", "current"}

\* SELECT DISTINCT location FROM metrics: the set of names some row references
GetLocationsWithData(rows) == {r.location : r \in rows}

\* the metrics table in which exactly the locations of S have rows (location
\* l has l of them, at most MaxRows); a run starts with rows for the first k
\* locations of the list, the later ones being new
RowsFor(S) ==
  {r \in [location : S, n : 1..MaxRows] : r.n <= r.location}

\* the mode a task fetches and publishes in (collect/main.go:81)
ModeOfSwapped(l) == IF l \in locationsWithData THEN "historical" ELSE "current"
ModeOf(l) == IF l \notin locationsWithData THEN "historical" ELSE "current"

\* sendToRedis: XAdd of the envelope; ok = FALSE is a failed XAdd, which is
\* only logged
sendToRedis(l, type, ok) ==
  IF ok
  THEN /\ ingest' = Append(ingest, [id |-> ingestNext, kind |-> "good",
                                    loc |-> l, type |-> type])
       /\ ingestNext' = ingestNext + 1
       /\ produced' = produced \cup {ingestNext}
  ELSE UNCHANGED <<ingest, ingestNext, produced>>

\* semaphore <- struct{}{} blocks while the channel is full
CanAcquireAlways(s) == TRUE
CanAcquire(s) == s < maxConcurrentRequests

\* messages of upstream errors: an HTTP 429 status, the API's "Too many
\* requests" text, and any other failure
ErrMessages == {"status 429", "Too many requests", "connection refused"}

\* strings.Contains(err.Error(), "429") || strings.Contains(err.Error(), "Too many")
isRateLimitError(msg) == msg \in {"status 429", "Too many requests"}

\* isRateLimitError && attempt < maxRetries-1
ShouldRetryAny(isRateLimit, a) == a < maxRetries - 1
ShouldRetry(isRateLimit, a) == isRateLimit /\ a < maxRetries - 1

\* 1 << n
RECURSIVE ShiftLeftOne(_)
ShiftLeftOne(n) == IF n = 0 THEN 1 ELSE 2 * ShiftLeftOne(n - 1)

\* time.Duration(1<<uint(attempt)) * time.Second, in seconds
BackoffFixed(a) == 1
Backoff(a) == ShiftLeftOne(a)

\* where the goroutine goes after a successful fetch and sendToRedis: return
ContinueAfterSuccess == "sleeping"
AfterSuccess == "done"

\* the deferred <-semaphore of a task that returns after its publish
KeepOnSuccess(s) == s
ReleaseOnSuccess(s) == s - 1

\* the variable success after the branch of a fetch that returned no error:
\* it is set after sendToRedis, which returns nothing
SuccessFlag(publishOk) == TRUE

\* the deferred <-semaphore of a task that ends in failure
ReleaseOnFailure(s) == s - 1

\* the goroutine passes the semaphore and starts its first upstream call
Acquire(l) ==
  /\ cpc[l] = "waiting"
  /\ CanAcquire(semaphore)
  /\ semaphore' = semaphore + 1
  /\ cpc' = [cpc EXCEPT ![l] = "fetching"]
  /\ calls' = [calls EXCEPT ![l] = @ + 1]
  /\ fetchModes' = [fetchModes EXCEPT ![l] = @ \cup {ModeOf(l)}]
  /\ inflight' = [inflight EXCEPT ![l] = @ + 1]
  /\ acquired' = [acquired EXCEPT ![l] = @ + 1]
  /\ UNCHANGED <<attempt, locationsWithData, slept, taskResult, metricsRows,
                 lastErr, collectorExited, released, streamVars, persistVars, mlVars,
                 detectVars, libVars>>

\* the upstream call returned without error; sendToRedis is entered
FetchOk(l) ==
  /\ cpc[l] = "fetching"
  /\ cpc' = [cpc EXCEPT ![l] = "publishing"]
  /\ inflight' = [inflight EXCEPT ![l] = @ - 1]
  /\ UNCHANGED <<semaphore, attempt, locationsWithData, calls, slept,
                 taskResult, collectorExited, metricsRows, fetchModes, lastErr,
                 acquired, released,
                 streamVars, persistVars, mlVars, detectVars, libVars>>

\* the XAdd of sendToRedis reaches Redis, or fails; the task still holds its
\* slot
PublishEnvelope(l) ==
  /\ cpc[l] = "publishing"
  /\ \E ok \in BOOLEAN :
       /\ sendToRedis(l, ModeOf(l), ok)
       /\ taskResult' = [taskResult EXCEPT
                           ![l] = IF ok THEN "published" ELSE "publishFailed"]
  /\ cpc' = [cpc EXCEPT ![l] = "returning"]
  /\ UNCHANGED <<semaphore, attempt, locationsWithData, calls, slept,
                 collectorExited, metricsRows, fetchModes, lastErr, inflight,
                 acquired, released,
                 groupLast, pel, persistVars, mlVars, detectVars, libVars>>

\* sendToRedis has returned: success = true, return, and the deferred
\* <-semaphore runs
ReturnAfterPublish(l) ==
  /\ cpc[l] = "returning"
  /\ cpc' = [cpc EXCEPT ![l] = AfterSuccess]
  /\ LET after == IF AfterSuccess = "done" THEN ReleaseOnSuccess(semaphore)
                  ELSE semaphore
     IN /\ semaphore' = after
        /\ released' = [released EXCEPT ![l] = @ + (semaphore - after)]
  /\ UNCHANGED <<attempt, locationsWithData, calls, slept, taskResult,
                 collectorExited, metricsRows, fetchModes, lastErr, inflight,
                 acquired,
                 streamVars, persistVars, mlVars, detectVars, libVars>>

\* the upstream call failed: sleep and retry on a rate limit, else give up
FetchErr(l) ==
  /\ cpc[l] = "fetching"
  /\ \E msg \in ErrMessages :
       /\ lastErr' = [lastErr EXCEPT
             ![l] = IF isRateLimitError(msg) THEN "rateLimit" ELSE "other"]
       /\ IF ShouldRetry(isRateLimitError(msg), attempt[l])
          THEN /\ cpc' = [cpc EXCEPT ![l] = "sleeping"]
               /\ slept' = [slept EXCEPT ![l] = @ + Backoff(attempt[l])]
               /\ UNCHANGED <<semaphore, taskResult, released>>
          ELSE /\ cpc' = [cpc EXCEPT ![l] = "done"]
               /\ semaphore' = ReleaseOnFailure(semaphore)
               /\ released' = [released EXCEPT
                     ![l] = @ + (semaphore - ReleaseOnFailure(semaphore))]
               /\ taskResult' = [taskResult EXCEPT ![l] = "failed"]
               /\ UNCHANGED slept
  /\ inflight' = [inflight EXCEPT ![l] = @ - 1]
  /\ UNCHANGED <<attempt, locationsWithData, calls, collectorExited,
                 metricsRows, fetchModes, acquired,
                 streamVars, persistVars, mlVars, detectVars, libVars>>

\* time.Sleep(backoff) returns; continue with the next attempt
WakeUp(l) ==
  /\ cpc[l] = "sleeping"
  /\ attempt[l] + 1 < maxRetries
  /\ attempt' = [attempt EXCEPT ![l] = @ + 1]
  /\ cpc' = [cpc EXCEPT ![l] = "fetching"]
  /\ calls' = [calls EXCEPT ![l] = @ + 1]
  /\ fetchModes' = [fetchModes EXCEPT ![l] = @ \cup {ModeOf(l)}]
  /\ inflight' = [inflight EXCEPT ![l] = @ + 1]
  /\ UNCHANGED <<semaphore, locationsWithData, slept, taskResult, metricsRows,
                 lastErr, collectorExited, acquired, released, streamVars, persistVars, mlVars,
                 detectVars, libVars>>

\* wg.Wait() returns when every goroutine has ended
CollectorExit ==
  /\ ~collectorExited
  /\ \A l \in Locations : cpc[l] = "done"
  /\ collectorExited' = TRUE
  /\ UNCHANGED <<cpc, semaphore, attempt, locationsWithData, calls, slept,
                 taskResult, metricsRows, fetchModes, lastErr, inflight,
                 acquired, released, streamVars, persistVars, mlVars, detectVars, libVars>>

CollectInit ==
  /\ LibIdle
  /\ cpc = [l \in Locations |-> "waiting"]
  /\ semaphore = 0
  /\ attempt = [l \in Locations |-> 0]
  /\ metricsRows \in {RowsFor(1..k) : k \in 0..NumLocations}
  /\ locationsWithData = GetLocationsWithData(metricsRows)
  /\ calls = [l \in Locations |-> 0]
  /\ slept = [l \in Locations |-> 0]
  /\ taskResult = [l \in Locations |-> "none"]
  /\ collectorExited = FALSE
  /\ fetchModes = [l \in Locations |-> {}]
  /\ lastErr = [l \in Locations |-> "none"]
  /\ inflight = [l \in Locations |-> 0]
  /\ acquired = [l \in Locations |-> 0]
  /\ released = [l \in Locations |-> 0]
  /\ StreamEmpty
  /\ PersistIdle
  /\ MLIdle
  /\ DetectIdle

CollectNext ==
  \/ \E l \in Locations : Acquire(l)
  \/ \E l \in Locations : FetchOk(l)
  \/ \E l \in Locations : PublishEnvelope(l)
  \/ \E l \in Locations : ReturnAfterPublish(l)
  \/ \E l \in Locations : FetchErr(l)
  \/ \E l \in Locations : WakeUp(l)
  \/ CollectorExit

SpecCollect == CollectInit /\ [][CollectNext]_vars

\* the steps of a task that the program itself completes: a free semaphore
\* slot is taken, the XAdd of sendToRedis returns (go-redis has read and write
\* timeouts), the goroutine returns after its publish, a sleep ends, wg.Wait
\* returns. The return of the upstream call is not among them: the client is
\* &http.Client{} with no Timeout and the request carries no context, so
\* c.client.Get returns only when the server answers or the connection fails
CollectOwnStep ==
  \/ \E l \in Locations : Acquire(l)
  \/ \E l \in Locations : PublishEnvelope(l)
  \/ \E l \in Locations : ReturnAfterPublish(l)
  \/ \E l \in Locations : WakeUp(l)
  \/ CollectorExit

\* The run starts with rows of the first location only, so that tasks of
\* both modes run.
CollectInitMixed == CollectInit /\ metricsRows = RowsFor({1})
FairSpecCollect ==
  CollectInitMixed /\ [][CollectNext]_vars /\ WF_vars(CollectOwnStep)

InFlight == Cardinality({l \in Locations : cpc[l] = "fetching"})

\* C5: at every instant of a Collector run the number of in-flight upstream
\* API requests (first attempts and retries together) is at most K = 2.
C5_SemaphoreCap == InFlight <= 2

C5_Witness ==
  /\ InFlight = 2
  /\ \E l \in Locations : cpc[l] = "waiting"
  /\ \E l \in Locations : cpc[l] = "fetching" /\ attempt[l] > 0

\* the envelopes on the ingest stream that carry location l
EnvelopesOf(l) == Cardinality({i \in 1..Len(ingest) : ingest[i].loc = l})

HasObservation(l) == \E r \in metricsRows : r.location = l

\* C14: a name is in the set of locations with data iff some row of the
\* metrics table references it, and every upstream call and every published
\* envelope of a location is in historical mode iff the name is not in that
\* set, else in current mode.
C14_ModeChoice ==
  /\ \A l \in Locations : l \in locationsWithData <=> HasObservation(l)
  /\ \A l \in Locations :
       fetchModes[l] \subseteq
         {IF HasObservation(l) THEN "current" ELSE "historical"}
  /\ \A i \in 1..Len(ingest) :
       ingest[i].type = "historical" <=> ~HasObservation(ingest[i].loc)

C14_Witness ==
  \E a, b \in Locations :
    /\ ~HasObservation(a) /\ taskResult[a] = "published"
    /\ fetchModes[a] = {"historical"}
    /\ Cardinality({r \in metricsRows : r.location = b}) >= 2
    /\ taskResult[b] = "published" /\ fetchModes[b] = {"current"}
    /\ \E i, j \in 1..Len(ingest) :
         /\ ingest[i].loc = a /\ ingest[i].type = "historical"
         /\ ingest[j].loc = b /\ ingest[j].type = "current"

\* C15: a location gets at most 3 upstream calls in a run; a task sleeps for
\* a retry only after a rate-limit failure and only while fewer than 3 calls
\* were made; a task that gave up on a rate-limit failure made 3 calls; any
\* other failure ends the task at once.
C15_BoundedRetries ==
  \A l \in Locations :
    /\ calls[l] <= 3
    /\ cpc[l] = "sleeping" => lastErr[l] = "rateLimit" /\ calls[l] < 3
    /\ lastErr[l] = "other" => cpc[l] = "done" /\ taskResult[l] = "failed"
    /\ (taskResult[l] = "failed" /\ lastErr[l] = "rateLimit") => calls[l] = 3

C15_Witness ==
  \E a, b \in Locations :
    /\ taskResult[a] = "failed" /\ lastErr[a] = "rateLimit" /\ calls[a] = 3
    /\ taskResult[b] = "failed" /\ lastErr[b] = "other" /\ calls[b] = 1

\* C16: the sleep before the second call is 1 s and the one before the third
\* call is 2 s, so a task whose third call succeeds has slept 3 s; it puts
\* one envelope on the stream (none if the XAdd itself failed).
C16_Backoff ==
  \A l \in Locations :
    /\ (cpc[l] = "sleeping" /\ calls[l] = 1) => slept[l] = 1
    /\ (cpc[l] # "sleeping" /\ calls[l] = 2) => slept[l] = 1
    /\ (cpc[l] = "sleeping" /\ calls[l] = 2) => slept[l] = 1 + 2
    /\ calls[l] = 3 => slept[l] = 1 + 2
    /\ (calls[l] = 3 /\ taskResult[l] = "published") => EnvelopesOf(l) = 1
    /\ (calls[l] = 3 /\ taskResult[l] = "publishFailed") => EnvelopesOf(l) = 0

C16_Witness ==
  \E l \in Locations :
    /\ calls[l] = 3 /\ attempt[l] = 2 /\ lastErr[l] = "rateLimit"
    /\ taskResult[l] = "published"
    /\ slept[l] = 3
    /\ EnvelopesOf(l) = 1

\* C17: at any instant a location has at most one upstream call in flight,
\* and a run puts at most one envelope per location on the stream.
C17_OnePerLocation ==
  \A l \in Locations : inflight[l] <= 1 /\ EnvelopesOf(l) <= 1

C17_Witness ==
  \E a, b \in Locations :
    /\ inflight[a] = 1 /\ calls[a] >= 2
    /\ inflight[b] = 1
    /\ a # b
    /\ \E c \in Locations : EnvelopesOf(c) = 1 /\ calls[c] >= 2

\* C18: the run terminates: every task gets the semaphore and makes a call,
\* every task ends with a published envelope or a failure, whatever happens
\* to the others, and wg.Wait returns only when all tasks have ended.
C18_Terminates ==
  /\ <>collectorExited
  /\ [](collectorExited =>
          \A l \in Locations :
            calls[l] >= 1 /\ cpc[l] = "done" /\ taskResult[l] # "none")

\* the task of location l left the retry loop through "if success { return }"
TaskSucceeded(l) ==
  /\ taskResult[l] \in {"published", "publishFailed"}
  /\ SuccessFlag(taskResult[l] = "published")

\* C32: a task whose envelope could not be published ends as a failure of
\* its location, not as a success.
C32_PublishFailureFails ==
  \A l \in Locations : taskResult[l] = "publishFailed" => ~TaskSucceeded(l)

\* the slots of the semaphore held by tasks
RECURSIVE SlotsHeld(_)
SlotsHeld(n) ==
  IF n = 0 THEN 0 ELSE SlotsHeld(n - 1) + acquired[n] - released[n]

\* C39: a task sends on the semaphore once, before its first call, holds the
\* slot through all its calls and sleeps, and receives from it once when it
\* ends, on every path; no slot is held when the run has ended.
C39_AcquireReleaseOnce ==
  /\ \A l \in Locations :
       /\ acquired[l] <= 1
       /\ released[l] <= acquired[l]
       /\ calls[l] >= 1 => acquired[l] = 1
       /\ cpc[l] \in {"fetching", "publishing", "returning", "sleeping"} =>
            acquired[l] = 1 /\ released[l] = 0
       /\ cpc[l] = "done" => acquired[l] = 1 /\ released[l] = 1
       /\ cpc[l] = "waiting" => acquired[l] = 0
  /\ semaphore = SlotsHeld(NumLocations)
  /\ collectorExited => semaphore = 0

C39_Witness ==
  /\ collectorExited
  /\ semaphore = 0
  /\ \E a, b, c \in Locations :
       /\ taskResult[a] = "published" /\ calls[a] = 3 /\ released[a] = 1
       /\ taskResult[b] = "failed" /\ slept[b] > 0 /\ released[b] = 1
       /\ taskResult[c] = "publishFailed" /\ released[c] = 1

\* ============================================================ Persister
\* a Collector run publishes one envelope (sendToRedis, XAdd succeeded)
Publish ==
  /\ ingestNext <= MaxPublish
  /\ \E type \in Modes : sendToRedis(1, type, TRUE)
  /\ UNCHANGED <<groupLast, pel, collectVars, persistVars, mlVars, detectVars, libVars>>

\* the entries another producer can put on the stream: one whose data does
\* not decode ("poison": the envelope or its forecast fails json.Unmarshal,
\* which the loop treats alike) and one that has no field named data
\* ("noData")
ForeignKinds == {"poison", "noData"}

\* another producer puts an entry on the stream
PublishUndecodable ==
  /\ ingestNext <= MaxPublish
  /\ \E kind \in ForeignKinds :
       ingest' = Append(ingest, [id |-> ingestNext, kind |-> kind,
                                 loc |-> 1, type |-> "current"])
  /\ ingestNext' = ingestNext + 1
  /\ UNCHANGED <<groupLast, pel, produced, collectVars, persistVars, mlVars, detectVars, libVars>>

\* XReadGroup with id ">": the entries never delivered to the group, at most
\* Count of them
Undelivered == Take(After(ingest, groupLast), ReadGroupCount)

\* XReadGroup returns: the reply (possibly empty, redis.Nil after the 5 s
\* block) is delivered, enters the pending list and moves last-delivered-id
XReadGroup ==
  /\ ppc = "read"
  /\ batch' = Undelivered
  /\ pel' = pel \cup SeqIds(Undelivered)
  /\ groupLast' = IF Undelivered = <<>> THEN groupLast
                  ELSE Undelivered[Len(Undelivered)].id
  /\ deliveries' = [i \in EntryIds |->
                      IF i \in SeqIds(Undelivered) THEN deliveries[i] + 1
                      ELSE deliveries[i]]
  /\ ppc' = "check"
  /\ UNCHANGED <<ingest, ingestNext, produced, cancelled, readErrors,
                 metricsStored, storeFailed, decodeFailed, acked, obsTable, insertsDone,
                 collectVars, mlVars, detectVars, libVars>>

\* XReadGroup returns an error other than redis.Nil: nothing is delivered
XReadGroupError ==
  /\ ppc = "read"
  /\ readErrors < MaxReadErrors
  /\ readErrors' = readErrors + 1
  /\ batch' = <<>>
  /\ ppc' = "check"
  /\ UNCHANGED <<streamVars, cancelled, deliveries, metricsStored,
                 storeFailed, decodeFailed, acked, obsTable, insertsDone,
                 collectVars, mlVars, detectVars, libVars>>

\* if ctx.Err() != nil { break } after the read (store/main.go:102)
CheckCtx ==
  /\ ppc = "check"
  /\ ppc' = IF cancelled THEN "exited" ELSE "proc"
  /\ UNCHANGED <<streamVars, batch, cancelled, readErrors, deliveries,
                 metricsStored, storeFailed, decodeFailed, acked, obsTable, insertsDone,
                 collectVars, mlVars, detectVars, libVars>>

\* m.Values["data"].(string): the type assertion has no ok result, so on an
\* entry without a string under "data" it panics, and the panic ends the
\* process (nothing recovers it)
HasData(m) == m.kind # "noData"

\* both json.Unmarshal calls succeed
Decodes(m) == m.kind = "good"

\* whether the message is acknowledged after the StoreMetrics call
AckAlways(storeOk) == TRUE
AckAfterStore(storeOk) == storeOk

\* the keys of the fieldData maps of storeHourlyMetrics and storeCurrentMetrics
KnownFields == {"temperature_2m", "relative_humidity_2m", "precipitation",
                "wind_speed_10m", "dew_point_2m"}

\* time.Parse("2006-01-02T15:04", timestamps[i]) succeeds; a timestamp that
\* does not parse is logged and passed over
Parses(forecast, i) == i \notin forecast.badTimes

\* len(values) != len(timestamps) is FALSE
AlignedOrShorter(n, times) == n <= times
Aligned(n, times) == n = times

\* the rows storeHourlyMetrics tries to insert, in order: for every requested
\* field that is known, has values and has as many values as there are
\* timestamps, one row per timestamp that parses
RECURSIVE HourlyInserts(_, _)
HourlyInserts(forecast, fields) ==
  IF fields = <<>> THEN <<>>
  ELSE LET f == Head(fields)
           n == IF f \in DOMAIN forecast.hourly THEN forecast.hourly[f] ELSE 0
           rows == IF f \notin KnownFields \/ n = 0
                      \/ ~Aligned(n, forecast.times)
                   THEN <<>>
                   ELSE SelectSeq([i \in 1..n |-> [field |-> f, t |-> i]],
                                  LAMBDA row : Parses(forecast, row.t))
       IN rows \o HourlyInserts(forecast, Tail(fields))

\* value != nil for the field of forecast.Current
HasValueOrNil(forecast, f) == TRUE
HasValue(forecast, f) == f \in forecast.current

\* the rows storeCurrentMetrics tries to insert, in order: for every requested
\* field that is known and whose value is not nil, one row stamped now (t = 0)
RECURSIVE CurrentInserts(_, _)
CurrentInserts(forecast, fields) ==
  IF fields = <<>> THEN <<>>
  ELSE LET f == Head(fields)
           rows == IF f \notin KnownFields \/ ~HasValue(forecast, f)
                   THEN <<>>
                   ELSE <<[field |-> f, t |-> 0]>>
       IN rows \o CurrentInserts(forecast, Tail(fields))

\* what remains of the rows inserted before a failed insert: each Exec is its
\* own statement, there is no transaction to roll back
DiscardInserted(table, rows) == table
KeepInserted(table, rows) == table \cup rows

\* StoreMetrics(forecast, location, fields, isInitial) for the message id;
\* failAt = k > 0 makes the k-th insert fail, failAt = 0 none
StoreMetrics(table, id, forecast, location, fields, isInitial, failAt) ==
  IF isInitial /\ forecast.times = 0
  THEN [err |-> TRUE, table |-> table, inserted |-> 0]
  ELSE LET ins == IF isInitial THEN HourlyInserts(forecast, fields)
                  ELSE CurrentInserts(forecast, fields)
           fails == failAt \in 1..Len(ins)
           n == IF fails THEN failAt - 1 ELSE Len(ins)
           rows == {[msg |-> id, location |-> location,
                     field |-> ins[i].field, t |-> ins[i].t] : i \in 1..n}
       IN IF fails
          THEN [err |-> TRUE, table |-> KeepInserted(table, rows),
                inserted |-> n]
          ELSE [err |-> FALSE, table |-> table \cup rows, inserted |-> n]

\* the decoded payload of a Collector's envelope: two monitored fields, as an
\* hourly series for a historical envelope, as present values else
PayloadFields == <<"temperature_2m", "relative_humidity_2m">>
PayloadForecast(m) ==
  IF m.type = "historical"
  THEN [times |-> HourlySamples,
        badTimes |-> {},
        hourly |-> [f \in {"temperature_2m", "relative_humidity_2m"} |->
                      HourlySamples],
        current |-> {}]
  ELSE [times |-> 0,
        badTimes |-> {},
        hourly |-> [f \in {"temperature_2m", "relative_humidity_2m"} |-> 0],
        current |-> {"temperature_2m", "relative_humidity_2m"}]

\* the inserts of the message's StoreMetrics call
InsertsOf(m) ==
  IF m.type = "historical"
  THEN HourlyInserts(PayloadForecast(m), PayloadFields)
  ELSE CurrentInserts(PayloadForecast(m), PayloadFields)

\* the insert at which the database fails during the call: none (0), the
\* first, or the last
FailPoints(m) == {0, 1, Len(InsertsOf(m))}

\* where the inner loop goes after a failed StoreMetrics call: continue
AfterStoreFailure == "proc"

\* StoreMetrics has returned for the message at the head of the reply: an
\* error is logged and the loop continues with the next message, success
\* goes on to the XAck
StoreReturns(m, storeOk) ==
  /\ IF storeOk
     THEN metricsStored' = metricsStored \cup {m.id} /\ UNCHANGED storeFailed
     ELSE storeFailed' = storeFailed \cup {m.id} /\ UNCHANGED metricsStored
  /\ IF AckAfterStore(storeOk)
     THEN ppc' = "ack" /\ UNCHANGED batch
     ELSE /\ ppc' = IF storeOk THEN "proc" ELSE AfterStoreFailure
          /\ batch' = Tail(batch)

\* the next INSERT of the StoreMetrics call for message m: one Exec, after
\* which the call goes on, returns nil (it was the last) or returns the error
InsertStep(m) ==
  LET ins == InsertsOf(m)
      k == insertsDone[m.id] + 1
      row == [msg |-> m.id, location |-> m.loc,
              field |-> ins[k].field, t |-> ins[k].t]
      mine == {r \in obsTable : r.msg = m.id}
  IN \E ok \in BOOLEAN :
       /\ ~ok => k \in FailPoints(m)
       /\ IF ok
          THEN /\ obsTable' = obsTable \cup {row}
               /\ insertsDone' = [insertsDone EXCEPT ![m.id] = k]
               /\ IF k = Len(ins)
                  THEN StoreReturns(m, TRUE)
                  ELSE /\ ppc' = "insert"
                       /\ UNCHANGED <<batch, metricsStored, storeFailed>>
          ELSE /\ obsTable' = KeepInserted(obsTable \ mine, mine)
               /\ UNCHANGED insertsDone
               /\ StoreReturns(m, FALSE)

\* the body of the inner loop for the next message of the reply, up to the
\* first INSERT of its StoreMetrics call
ProcessMessage ==
  /\ ppc = "proc"
  /\ batch # <<>>
  /\ LET m == Head(batch) IN
       IF cancelled
       THEN /\ ppc' = "exited"
            /\ UNCHANGED <<batch, metricsStored, storeFailed, decodeFailed,
                           obsTable, insertsDone>>
       ELSE IF ~HasData(m)
       THEN /\ ppc' = "panicked"
            /\ UNCHANGED <<batch, metricsStored, storeFailed, decodeFailed,
                           obsTable, insertsDone>>
       ELSE IF ~Decodes(m)
       THEN /\ decodeFailed' = decodeFailed \cup {m.id}
            /\ batch' = Tail(batch)
            /\ UNCHANGED <<ppc, metricsStored, storeFailed, obsTable,
                           insertsDone>>
       ELSE /\ UNCHANGED decodeFailed
            /\ IF m.type = "historical" /\ PayloadForecast(m).times = 0
               THEN StoreReturns(m, FALSE) /\ UNCHANGED <<obsTable, insertsDone>>
               ELSE IF InsertsOf(m) = <<>>
               THEN StoreReturns(m, TRUE) /\ UNCHANGED <<obsTable, insertsDone>>
               ELSE InsertStep(m)
  /\ UNCHANGED <<streamVars, acked, cancelled, readErrors, deliveries,
                 collectVars, mlVars, detectVars, libVars>>

\* a later INSERT of the StoreMetrics call
StoreInsert ==
  /\ ppc = "insert"
  /\ InsertStep(Head(batch))
  /\ UNCHANGED <<streamVars, acked, decodeFailed, cancelled, readErrors,
                 deliveries, collectVars, mlVars, detectVars, libVars>>

\* redisClient.XAck for the stored message; the result is not looked at
AckMessage ==
  /\ ppc = "ack"
  /\ \E ok \in BOOLEAN :
       IF ok
       THEN /\ acked' = acked \cup {Head(batch).id}
            /\ pel' = pel \ {Head(batch).id}
       ELSE UNCHANGED <<acked, pel>>
  /\ ppc' = "trim"
  /\ UNCHANGED <<ingest, ingestNext, groupLast, produced, batch, cancelled,
                 readErrors, deliveries, metricsStored, storeFailed,
                 decodeFailed, obsTable, insertsDone,
                 collectVars, mlVars, detectVars, libVars>>

\* redisClient.XTrimMaxLen(stream, 1000); the result is not looked at; the
\* loop goes on to the next message
TrimStream ==
  /\ ppc = "trim"
  /\ \E ok \in BOOLEAN :
       ingest' = IF ok THEN XTrimMaxLen(ingest, IngestMaxLen) ELSE ingest
  /\ batch' = Tail(batch)
  /\ ppc' = "proc"
  /\ UNCHANGED <<ingestNext, groupLast, pel, produced, cancelled, readErrors,
                 deliveries, metricsStored, storeFailed, decodeFailed, acked,
                 obsTable, insertsDone,
                 collectVars, mlVars, detectVars, libVars>>

\* the reply is exhausted: back to the top of the outer loop
EndOfBatch ==
  /\ ppc = "proc"
  /\ batch = <<>>
  /\ ppc' = "read"
  /\ UNCHANGED <<streamVars, batch, cancelled, readErrors, deliveries,
                 metricsStored, storeFailed, decodeFailed, acked, obsTable, insertsDone,
                 collectVars, mlVars, detectVars, libVars>>

\* SIGINT/SIGTERM: the signal goroutine calls cancel()
Signal ==
  /\ ppc \notin {"exited", "panicked"}
  /\ ~cancelled
  /\ cancelled' = TRUE
  /\ UNCHANGED <<streamVars, ppc, batch, readErrors, deliveries,
                 metricsStored, storeFailed, decodeFailed, acked, obsTable, insertsDone,
                 collectVars, mlVars, detectVars, libVars>>

PersistInit ==
  /\ LibIdle
  /\ CollectIdle
  /\ MLIdle
  /\ DetectIdle
  /\ StreamEmpty
  /\ ppc = "read"
  /\ batch = <<>>
  /\ cancelled = FALSE
  /\ readErrors = 0
  /\ deliveries = [i \in EntryIds |-> 0]
  /\ metricsStored = {}
  /\ storeFailed = {}
  /\ decodeFailed = {}
  /\ acked = {}
  /\ obsTable = {}
  /\ insertsDone = [i \in EntryIds |-> 0]

PersistStep ==
  \/ XReadGroup
  \/ CheckCtx
  \/ ProcessMessage
  \/ StoreInsert
  \/ AckMessage
  \/ TrimStream
  \/ EndOfBatch

PersistNext ==
  \/ Publish
  \/ PublishUndecodable
  \/ XReadGroup
  \/ XReadGroupError
  \/ CheckCtx
  \/ ProcessMessage
  \/ StoreInsert
  \/ AckMessage
  \/ TrimStream
  \/ EndOfBatch
  \/ Signal

SpecPersist == PersistInit /\ [][PersistNext]_vars

\* the Persister's own steps are always eventually taken: it is a running
\* process whose blocking read returns after at most 5 s and whose calls to
\* the database and to Redis return
FairSpecPersist == SpecPersist /\ WF_vars(PersistStep)

\* C1: every envelope the Collector published is eventually stored by a
\* running Persister (one that has not been told to stop).
C1_EventuallyStored ==
  \A i \in EntryIds : (i \in produced) ~> (i \in metricsStored \/ cancelled)

\* C7: a message whose store call failed is not acknowledged, stays pending,
\* and the running Persister receives it again on a later read cycle.
C7_Redelivered ==
  \A i \in EntryIds :
    /\ [](i \in storeFailed => i \notin acked /\ i \in pel)
    /\ (i \in storeFailed) ~> (deliveries[i] >= 2 \/ cancelled)

\* C8: a message is acknowledged only after its store call returned success.
C8_AckOnlyAfterStore == acked \subseteq metricsStored

C8_Witness ==
  /\ acked # {}
  /\ storeFailed # {}
  /\ storeFailed \cap acked = {}

\* C9: a message whose envelope cannot be decoded is acknowledged and leaves
\* the pending list.
C9_PoisonAcked ==
  \A i \in decodeFailed : i \in acked /\ i \notin pel

\* C19: when the Persister has exited after a termination signal, the batch
\* it had read is drained: no message of it is left unprocessed.
C19_BatchDrained == (ppc = "exited" /\ cancelled) => batch = <<>>

\* ---- the Persister started on a backlog
\* the stream when the Persister starts late: the Collector has published
\* BacklogExcess envelopes more than MAXLEN and none has been delivered
Backlog == IngestMaxLen + BacklogExcess

BacklogInit ==
  /\ LibIdle
  /\ CollectIdle
  /\ MLIdle
  /\ DetectIdle
  /\ ingest = [i \in 1..Backlog |->
                 [id |-> i, kind |-> "good", loc |-> 1, type |-> "current"]]
  /\ ingestNext = Backlog + 1
  /\ produced = 1..Backlog
  /\ groupLast = 0
  /\ pel = {}
  /\ ppc = "read"
  /\ batch = <<>>
  /\ cancelled = FALSE
  /\ readErrors = 0
  /\ deliveries = [i \in EntryIds |-> 0]
  /\ metricsStored = {}
  /\ storeFailed = {}
  /\ decodeFailed = {}
  /\ acked = {}
  /\ obsTable = {}
  /\ insertsDone = [i \in EntryIds |-> 0]

\* the inner loop's body, followed for the first messages of the backlog
BacklogProcess ==
  /\ Cardinality(metricsStored \cup storeFailed) < MaxBacklogProcessed
  /\ ProcessMessage

BacklogNext ==
  \/ XReadGroup
  \/ XReadGroupError
  \/ CheckCtx
  \/ BacklogProcess
  \/ StoreInsert
  \/ AckMessage
  \/ TrimStream
  \/ Signal

SpecBacklog == BacklogInit /\ [][BacklogNext]_vars

\* C27: the trim after an acknowledgement never removes an envelope that has
\* not yet been delivered to the Persister, whatever the size of the backlog.
C27_TrimKeepsUndelivered ==
  \A i \in produced : i > groupLast => i \in SeqIds(ingest)

\* C28: the Persister keeps advancing: it leaves the loop (by a return or
\* by the end of the process) only when cancelled; a message is out of the batch only once it was processed
\* (stored, failed to store or failed to decode), whatever happened to the
\* messages before it; the loop is at the read only with the batch finished;
\* and it comes back to the read again and again, also after a read error,
\* until it is cancelled.
C28_KeepsAdvancing ==
  /\ [](ppc \in {"exited", "panicked"} => cancelled)
  /\ [](\A i \in EntryIds :
          (deliveries[i] > 0 /\ i \notin SeqIds(batch))
            => i \in metricsStored \cup storeFailed \cup decodeFailed)
  /\ [](ppc = "read" => batch = <<>>)
  /\ []<>(ppc = "read" \/ cancelled)

\* the entry with id i is a historical envelope
IsHistorical(i) ==
  \E k \in 1..Len(ingest) : ingest[k].id = i /\ ingest[k].type = "historical"

\* the rows of the metrics table that came from message i
RowsOfMessage(i) == {r \in obsTable : r.msg = i}

\* C30: a historical envelope's rows are inserted one by one without a
\* transaction: after a store call that failed at some insert, exactly the
\* rows inserted before it are in the table, and the message is neither
\* acknowledged nor out of the pending list.
C30_PartialRowsStay ==
  \A i \in storeFailed :
    IsHistorical(i) =>
      /\ insertsDone[i] < HourlySamples * Len(PayloadFields)
      /\ Cardinality(RowsOfMessage(i)) = insertsDone[i]
      /\ \A r \in RowsOfMessage(i) :
           \/ r.field = PayloadFields[1]
           \/ insertsDone[i] > HourlySamples
      /\ i \notin acked
      /\ i \in pel

C30_Witness ==
  \E i \in storeFailed :
    /\ IsHistorical(i)
    /\ insertsDone[i] > 0
    /\ Cardinality(RowsOfMessage(i)) = insertsDone[i]
    /\ i \in pel /\ i \notin acked

\* ===================================================== ML request/response
jobID == "own"

Count(s, job) == Cardinality({i \in 1..Len(s) : s[i].job = job})

\* the ML worker answers the published request (it may answer twice)
MLRespondOwn ==
  /\ mlOutNext <= MaxOut
  /\ mlIn # <<>>
  /\ mpc # "done"
  /\ Count(mlOut, jobID) < MaxOwn
  /\ mlOut' = Append(mlOut, [id |-> mlOutNext, job |-> jobID])
  /\ mlOutNext' = mlOutNext + 1
  /\ ownInTime' = (ownInTime \/ ~deadline)
  /\ UNCHANGED <<mpc, mlMetrics, mlIn, lastID, tailAtProbe, deadline, mlResult,
                 acceptedId, acceptedJob, maxInspected, reinspected,
                 sinkAborted,
                 collectVars, streamVars, persistVars, detectVars, libVars>>

\* the response of another job, or an entry that does not parse, is appended
MLRespondOther ==
  /\ mlOutNext <= MaxOut
  /\ mpc # "done"
  /\ mpc \in {"start", "probe"} => Len(mlOut) < MaxStale
  /\ \E job \in {"other", "bad"} :
       /\ job = "bad" => Count(mlOut, "bad") < MaxBad
       /\ mlOut' = Append(mlOut, [id |-> mlOutNext, job |-> job])
  /\ mlOutNext' = mlOutNext + 1
  /\ UNCHANGED <<mpc, mlMetrics, mlIn, lastID, tailAtProbe, deadline, mlResult,
                 acceptedId, acceptedJob, maxInspected, reinspected, ownInTime,
                 sinkAborted,
                 collectVars, streamVars, persistVars, detectVars, libVars>>

\* 60 s have passed since time.After was called
DeadlineElapses ==
  /\ mpc \in {"select", "read"}
  /\ ~deadline
  /\ deadline' = TRUE
  /\ UNCHANGED <<mpc, mlMetrics, mlIn, mlOut, mlOutNext, lastID, tailAtProbe,
                 mlResult, acceptedId, acceptedJob, maxInspected, reinspected, ownInTime,
                 sinkAborted,
                 collectVars, streamVars, persistVars, detectVars, libVars>>

\* len(metrics) < 10: too little history for the ML pass
TooFewMetricsBelowNine(n) == n < MinMLMetrics - 1
TooFewMetrics(n) == n < MinMLMetrics

\* db.GetMetrics for the last 30 days and the len(metrics) < 10 test
MLStart ==
  /\ mpc = "start"
  /\ \E dbOk \in BOOLEAN, n \in {MinMLMetrics - 1, MinMLMetrics} :
       IF ~dbOk
       THEN /\ mlResult' = "error"
            /\ mpc' = "done"
            /\ UNCHANGED mlMetrics
       ELSE /\ mlMetrics' = n
            /\ IF TooFewMetrics(n)
               THEN mlResult' = "skipped" /\ mpc' = "done"
               ELSE mlResult' = mlResult /\ mpc' = "probe"
  /\ UNCHANGED <<mlIn, mlOut, mlOutNext, lastID, tailAtProbe, deadline,
                 acceptedId, acceptedJob, maxInspected, reinspected, ownInTime,
                 sinkAborted,
                 collectVars, streamVars, persistVars, detectVars, libVars>>

TailId(s) == IF s = <<>> THEN 0 ELSE s[Len(s)].id

\* lastID := "0-0"; XRevRangeN(ml_output, "+", "-", 1); the id of the reply's
\* entry is taken only if err == nil && len(lastMessages) > 0
Probe ==
  /\ mpc = "probe"
  /\ \E ok \in BOOLEAN :
       lastID' = IF ok /\ mlOut # <<>> THEN TailId(mlOut) ELSE 0
  /\ tailAtProbe' = TailId(mlOut)
  /\ mpc' = "publish"
  /\ UNCHANGED <<mlMetrics, mlIn, mlOut, mlOutNext, deadline, mlResult,
                 acceptedId, acceptedJob, maxInspected, reinspected, ownInTime,
                 sinkAborted,
                 collectVars, streamVars, persistVars, detectVars, libVars>>

\* json.Marshal and XAdd to ml_input; an error of either ends the pass
PublishRequest ==
  /\ mpc = "publish"
  /\ \E ok \in BOOLEAN :
       IF ok
       THEN /\ mlIn' = Append(mlIn, [job |-> jobID, n |-> mlMetrics])
            /\ mpc' = "select"
            /\ UNCHANGED mlResult
       ELSE /\ mlResult' = "error"
            /\ mpc' = "done"
            /\ UNCHANGED mlIn
  /\ UNCHANGED <<mlMetrics, mlOut, mlOutNext, lastID, tailAtProbe, deadline,
                 acceptedId, acceptedJob, maxInspected, reinspected, ownInTime,
                 sinkAborted,
                 collectVars, streamVars, persistVars, detectVars, libVars>>

\* case <-timeout
TimeoutFire ==
  /\ mpc = "select"
  /\ deadline
  /\ mlResult' = "timeout"
  /\ mpc' = "done"
  /\ UNCHANGED <<mlMetrics, mlIn, mlOut, mlOutNext, lastID, tailAtProbe,
                 deadline, acceptedId, acceptedJob, maxInspected, reinspected, ownInTime,
                 sinkAborted,
                 collectVars, streamVars, persistVars, detectVars, libVars>>

\* case <-ticker.C
TickFire ==
  /\ mpc = "select"
  /\ mpc' = "read"
  /\ UNCHANGED <<mlMetrics, mlIn, mlOut, mlOutNext, lastID, tailAtProbe,
                 deadline, mlResult, acceptedId, acceptedJob, maxInspected,
                 reinspected, ownInTime, sinkAborted,
                 collectVars, streamVars, persistVars, detectVars, libVars>>

\* XRead returns an error
XReadError ==
  /\ mpc = "read"
  /\ mpc' = "select"
  /\ UNCHANGED <<mlMetrics, mlIn, mlOut, mlOutNext, lastID, tailAtProbe,
                 deadline, mlResult, acceptedId, acceptedJob, maxInspected,
                 reinspected, ownInTime, sinkAborted,
                 collectVars, streamVars, persistVars, detectVars, libVars>>

\* the reply of XRead(ml_output, cursor, Count 10): entries after the cursor
XReadReply(cursor) == Take(After(mlOut, cursor), MLReadCount)

\* result.JobID == jobID
IsOurJobAny(job) == job # "bad"
IsOurJob(job) == job = jobID

\* position of the first entry of the reply that parses and is ours, 0 if none
RECURSIVE FirstMatch(_, _)
FirstMatch(msgs, k) ==
  IF k > Len(msgs) THEN 0
  ELSE IF msgs[k].job # "bad" /\ IsOurJob(msgs[k].job) THEN k
  ELSE FirstMatch(msgs, k + 1)

\* the cursor the next XRead is called with: the loop never assigns lastID
CursorAfter(cursor, msgs) == cursor

\* XRead returns entries: Block 0 makes the call wait until there is at least
\* one entry after the cursor.  The reply is scanned in order; on a match the
\* response is converted and the two trims follow.
XReadOk ==
  /\ mpc = "read"
  /\ XReadReply(lastID) # <<>>
  /\ LET msgs == XReadReply(lastID)
         k == FirstMatch(msgs, 1)
         seen == IF k = 0 THEN msgs ELSE Take(msgs, k)
     IN /\ maxInspected' = Max(maxInspected, TailId(Take(msgs, Len(seen))))
        /\ reinspected' = (reinspected \/ msgs[1].id <= maxInspected)
        /\ IF k # 0
           THEN /\ acceptedId' = msgs[k].id
                /\ acceptedJob' = msgs[k].job
                /\ mpc' = "trimIn"
                /\ UNCHANGED lastID
           ELSE /\ lastID' = CursorAfter(lastID, msgs)
                /\ mpc' = "select"
                /\ UNCHANGED <<acceptedId, acceptedJob>>
  /\ UNCHANGED <<mlMetrics, mlIn, mlOut, mlOutNext, tailAtProbe, deadline,
                 mlResult, ownInTime, sinkAborted,
                 collectVars, streamVars, persistVars, detectVars, libVars>>

\* XTrimMaxLen(ml_input, 500); the result is not looked at
MLTrimInput ==
  /\ mpc = "trimIn"
  /\ \E ok \in BOOLEAN :
       mlIn' = IF ok THEN XTrimMaxLen(mlIn, MLMaxLen) ELSE mlIn
  /\ mpc' = "trimOut"
  /\ UNCHANGED <<mlMetrics, mlOut, mlOutNext, lastID, tailAtProbe, deadline,
                 mlResult, acceptedId, acceptedJob, maxInspected, reinspected,
                 ownInTime, sinkAborted,
                 collectVars, streamVars, persistVars, detectVars, libVars>>

\* XTrimMaxLen(ml_output, 500), its result not looked at, and the return of
\* the anomalies
MLTrimOutput ==
  /\ mpc = "trimOut"
  /\ \E ok \in BOOLEAN :
       mlOut' = IF ok THEN XTrimMaxLen(mlOut, MLMaxLen) ELSE mlOut
  /\ mlResult' = "ok"
  /\ mpc' = "done"
  /\ UNCHANGED <<mlMetrics, mlIn, mlOutNext, lastID, tailAtProbe, deadline,
                 acceptedId, acceptedJob, maxInspected, reinspected,
                 ownInTime, sinkAborted,
                 collectVars, streamVars, persistVars, detectVars, libVars>>

MLInit ==
  /\ LibIdle
  /\ CollectIdle
  /\ DetectIdle
  /\ StreamEmpty
  /\ PersistIdle
  /\ mpc = "start"
  /\ mlMetrics = 0
  /\ mlIn = <<>>
  /\ mlOut = <<>>
  /\ mlOutNext = 1
  /\ lastID = 0
  /\ tailAtProbe = 0
  /\ deadline = FALSE
  /\ mlResult = "none"
  /\ acceptedId = 0
  /\ acceptedJob = "none"
  /\ maxInspected = 0
  /\ reinspected = FALSE
  /\ ownInTime = FALSE
  /\ sinkAborted = FALSE

MLNext ==
  \/ MLRespondOwn
  \/ MLRespondOther
  \/ DeadlineElapses
  \/ MLStart
  \/ Probe
  \/ PublishRequest
  \/ TimeoutFire
  \/ TickFire
  \/ XReadError
  \/ XReadOk
  \/ MLTrimInput
  \/ MLTrimOutput

SpecML == MLInit /\ [][MLNext]_vars

\* the ticker fires every 500 ms; a read that can return does return, read
\* errors are transient; select picks the ready timeout case at random, so
\* it is not passed over forever; the trims return
FairSpecML ==
  /\ SpecML
  /\ WF_vars(TickFire)
  /\ SF_vars(XReadOk)
  /\ SF_vars(TimeoutFire)
  /\ WF_vars(MLTrimInput)
  /\ WF_vars(MLTrimOutput)

\* the result sink aborts while the job is in its wait loop; the job's
\* context is context.Background(), which nothing cancels
SinkAbort ==
  /\ mpc \in {"select", "read"}
  /\ ~sinkAborted
  /\ sinkAborted' = TRUE
  /\ UNCHANGED <<mpc, mlMetrics, mlIn, mlOut, mlOutNext, lastID, tailAtProbe,
                 deadline, mlResult, acceptedId, acceptedJob, maxInspected,
                 reinspected, ownInTime,
                 collectVars, streamVars, persistVars, detectVars, libVars>>

MLCancelNext ==
  \/ MLRespondOwn
  \/ MLRespondOther
  \/ DeadlineElapses
  \/ MLStart
  \/ Probe
  \/ PublishRequest
  \/ TimeoutFire
  \/ TickFire
  \/ XReadError
  \/ XReadOk
  \/ MLTrimInput
  \/ MLTrimOutput
  \/ SinkAbort

\* the ML exchange of a job whose result sink may abort
SpecMLCancel == MLInit /\ [][MLCancelNext]_vars

FairSpecMLCancel ==
  /\ SpecMLCancel
  /\ WF_vars(TickFire)
  /\ SF_vars(XReadOk)
  /\ SF_vars(TimeoutFire)
  /\ WF_vars(MLTrimInput)
  /\ WF_vars(MLTrimOutput)

\* C13: once the result sink has aborted, the next step the job takes in its
\* wait loop is to leave it, without an accepted response and without the
\* timeout.
C13_CancelObserved ==
  [][(sinkAborted /\ mpc' # mpc) =>
       (mpc' = "done" /\ mlResult' \notin {"ok", "timeout"})]_vars

\* C2: a response with the job's own job_id appended after the request was
\* published and before the deadline is eventually accepted (as long as the
\* deadline has not elapsed), however many other responses precede it.
C2_OwnResponseAccepted == ownInTime ~> (mlResult = "ok" \/ deadline)

\* C3: an accepted response carries the job's own job_id, its id is greater
\* than the cursor, and it was not on the stream when the cursor was captured.
C3_Correlation ==
  acceptedId # 0 =>
    /\ acceptedJob = jobID
    /\ acceptedId > lastID
    /\ acceptedId > tailAtProbe

C3_Witness ==
  /\ mlResult = "ok"
  /\ acceptedId > tailAtProbe
  /\ tailAtProbe > 0
  /\ lastID = tailAtProbe
  /\ acceptedId > lastID + 1

\* C4: the cursor is past every message the wait loop has inspected, so no
\* message is inspected more than once.
C4_InspectedOnce ==
  /\ ~reinspected
  /\ mpc = "select" => maxInspected <= lastID

\* C35: when the store returns fewer than 10 observations of the last 30 days,
\* the ML pass ends at once with an empty result and no error, and no request
\* is ever published to ml_input.
C35_TooFewSkips ==
  /\ mlMetrics < MinMLMetrics => mlIn = <<>>
  /\ (mpc # "start" /\ mlResult # "error" /\ mlMetrics < MinMLMetrics) =>
       (mpc = "done" /\ mlResult = "skipped")

C35_Witness ==
  /\ mpc = "done"
  /\ mlResult = "skipped"
  /\ mlMetrics = MinMLMetrics - 1
  /\ mlIn = <<>>

\* C10: once the deadline has elapsed the ML wait ends (with a timeout error
\* unless a matching response was read).
C10_TimeoutReturns == deadline ~> (mlResult \in {"timeout", "ok"})

\* ==================================================== Detector worker pool
otherVars == <<collectVars, streamVars, persistVars, mlVars, libVars>>

\* the anomalies one pass returns for location l: k rows tagged with the pass
Anoms(l, src, k) == [i \in 1..k |-> [location |-> l, src |-> src, n |-> i]]

\* what DetectAnomalies returns when the ML pass fails: nil and the error
MLFailureKeepsStats(stats) == [err |-> TRUE, anomalies |-> stats]
MLFailureResult(stats) == [err |-> TRUE, anomalies |-> <<>>]

\* append(stats_anomalies, ml_anomalies...)
Concat(stats, ml) == stats \o ml

\* DetectAnomalies: the statistical pass, then the ML pass; an error of
\* either returns nil and the error, else the two lists are concatenated
DetectAnomalies(l, statsErr, k, mlOutcome, j) ==
  IF statsErr THEN [err |-> TRUE, anomalies |-> <<>>]
  ELSE IF mlOutcome \in {"error", "timeout"}
  THEN MLFailureResult(Anoms(l, "stat", k))
  ELSE [err |-> FALSE,
        anomalies |-> Concat(Anoms(l, "stat", k),
                             Anoms(l, "ml", IF mlOutcome = "ok" THEN j ELSE 0))]

SeqToSet(q) == {q[i] : i \in 1..Len(q)}

\* make(chan ..., len(locations)): the capacity of jobs and of results
ChanCap == NumDetectLocations

\* tx.Commit() makes the rows inserted in the transaction part of the table
Commit(table, txRows) == table \cup txRows

\* the deferred tx.Rollback() of a transaction that was not committed
RollbackKeepsRows(table, txRows) == table \cup txRows
Rollback(table, txRows) == table

\* StoreAnomalies: nothing to do for an empty batch; else one transaction
\* with one insert per anomaly.  failAt = 0: no failure; failAt = k in
\* 1..Len: the k-th insert fails (k = 1 also stands for a failed Begin or
\* Prepare); failAt = Len + 1: the commit fails.
StoreAnomalies(table, anomalies, failAt) ==
  IF Len(anomalies) = 0 THEN [err |-> FALSE, table |-> table]
  ELSE LET n == IF failAt = 0 THEN Len(anomalies)
                ELSE Min(failAt, Len(anomalies) + 1) - 1
           txRows == SeqToSet(SubSeq(anomalies, 1, n))
       IN IF failAt = 0
          THEN [err |-> FALSE, table |-> Commit(table, txRows)]
          ELSE [err |-> TRUE, table |-> Rollback(table, txRows)]

\* jobs <- location, for the next location of the list
Produce ==
  /\ dpc = "produce"
  /\ pushed < NumDetectLocations
  /\ Len(jobs) < ChanCap
  /\ jobs' = Append(jobs, pushed + 1)
  /\ pushed' = pushed + 1
  /\ UNCHANGED <<dpc, jobsClosed, results, resultsClosed, wpc, wjob,
                 anomTable, suggTable, totalAnomalies, totalSuggestions,
                 totalErrors, locationCount, returned, insertFailed, taken, sent, sendOnClosed, storeCalls, statsDiscarded, suggSkipped, loopResult, otherVars>>

\* the state of the jobs channel after the producer has pushed every location
JobsLeftOpen == FALSE
JobsClosedByProducer == TRUE

\* close(jobs); the barrier goroutine is started; main enters the result loop
CloseJobs ==
  /\ dpc = "produce"
  /\ pushed = NumDetectLocations
  /\ jobsClosed' = JobsClosedByProducer
  /\ dpc' = "collect"
  /\ UNCHANGED <<pushed, jobs, results, resultsClosed, wpc, wjob,
                 anomTable, suggTable, totalAnomalies, totalSuggestions,
                 totalErrors, locationCount, returned, insertFailed, taken, sent, sendOnClosed, storeCalls, statsDiscarded, suggSkipped, loopResult, otherVars>>

\* for location := range jobs: a worker receives the next location
TakeJob(w) ==
  /\ wpc[w] = "idle"
  /\ jobs # <<>>
  /\ wjob' = [wjob EXCEPT ![w] = Head(jobs)]
  /\ jobs' = Tail(jobs)
  /\ wpc' = [wpc EXCEPT ![w] = "detecting"]
  /\ taken' = [taken EXCEPT ![Head(jobs)] = @ + 1]
  /\ UNCHANGED <<dpc, pushed, jobsClosed, results, resultsClosed,
                 anomTable, suggTable, totalAnomalies, totalSuggestions,
                 totalErrors, locationCount, returned, insertFailed, sent,
                 sendOnClosed, storeCalls, statsDiscarded, suggSkipped, loopResult, otherVars>>

\* the outcomes of one detection: whether the statistical pass fails, the
\* number k of anomalies it finds, how the ML pass ends, the number j of
\* anomalies of an accepted ML response, the number s of suggestions derived
\* (each number is either 0 or the bound, and an accepted response flags as
\* many anomalies as the statistical pass found)
DetectInputs ==
  {[statsErr |-> TRUE, k |-> 0, ml |-> "skipped", j |-> 0, s |-> 0]} \cup
  {[statsErr |-> FALSE, k |-> k, ml |-> ml, j |-> 0, s |-> 0] :
     k \in {0, MaxAnomalies}, ml \in {"error", "timeout"}} \cup
  {[statsErr |-> FALSE, k |-> k, ml |-> "skipped", j |-> 0, s |-> s] :
     k \in {0, MaxAnomalies}, s \in {0, MaxSuggestions}} \cup
  {[statsErr |-> FALSE, k |-> k, ml |-> "ok", j |-> k, s |-> s] :
     k \in {0, MaxAnomalies}, s \in {0, MaxSuggestions}}

\* what a worker does after it has sent the result of a failed detection
AfterDetectError == "idle"

\* the detection of the worker's location returns; the worker derives the
\* suggestions, sends its DetectionResult and goes on with the loop
WorkerDetect(w) ==
  /\ wpc[w] = "detecting"
  /\ resultsClosed \/ Len(results) < ChanCap
  /\ sent' = [sent EXCEPT ![wjob[w]] = @ + 1]
  /\ sendOnClosed' = (sendOnClosed \/ resultsClosed)
  /\ \E in \in DetectInputs :
       LET d == DetectAnomalies(wjob[w], in.statsErr, in.k, in.ml, in.j)
           sugg == IF Len(d.anomalies) > 0 THEN in.s ELSE 0
       IN /\ returned' = [returned EXCEPT ![wjob[w]] =
                  [done |-> TRUE, err |-> d.err, anomalies |-> d.anomalies]]
          /\ results' = Append(results,
                 [location |-> wjob[w], error |-> d.err,
                  anomalies |-> IF d.err THEN <<>> ELSE d.anomalies,
                  suggestions |-> IF d.err THEN 0 ELSE sugg])
          /\ statsDiscarded' =
               (statsDiscarded \/ (~in.statsErr /\ in.k > 0 /\ d.err))
          /\ wpc' = [wpc EXCEPT
                       ![w] = IF d.err THEN AfterDetectError ELSE "idle"]
  /\ wjob' = [wjob EXCEPT ![w] = 0]
  /\ UNCHANGED <<dpc, pushed, jobs, jobsClosed, resultsClosed,
                 anomTable, suggTable, totalAnomalies, totalSuggestions,
                 totalErrors, locationCount, insertFailed, taken, storeCalls,
                 suggSkipped, loopResult, otherVars>>

\* the range over jobs ends: the channel is closed and drained
WorkerExit(w) ==
  /\ wpc[w] = "idle"
  /\ jobs = <<>>
  /\ jobsClosed
  /\ wpc' = [wpc EXCEPT ![w] = "exited"]
  /\ UNCHANGED <<dpc, pushed, jobs, jobsClosed, results, resultsClosed, wjob,
                 anomTable, suggTable, totalAnomalies, totalSuggestions,
                 totalErrors, locationCount, returned, insertFailed, taken, sent, sendOnClosed, storeCalls, statsDiscarded, suggSkipped, loopResult, otherVars>>

\* wg.Wait() returns: every worker has run its deferred wg.Done()
BarrierSkipped == TRUE
BarrierPassed == \A w \in Workers : wpc[w] = "exited"

\* wg.Wait(); close(results)
CloseResults ==
  /\ dpc # "produce"
  /\ ~resultsClosed
  /\ BarrierPassed
  /\ resultsClosed' = TRUE
  /\ UNCHANGED <<dpc, pushed, jobs, jobsClosed, results, wpc, wjob,
                 anomTable, suggTable, totalAnomalies, totalSuggestions,
                 totalErrors, locationCount, returned, insertFailed, taken, sent, sendOnClosed, storeCalls, statsDiscarded, suggSkipped, loopResult, otherVars>>

\* whether the loop over the suggestions of a result is entered, given
\* whether its batch insert failed: the loop is in the else branch
SuggestionsWrittenAlways(batchErr) == TRUE
SuggestionsWritten(batchErr) == ~batchErr

\* the suggestion the loop goes on with after suggestion i, given whether its
\* insert succeeded: a failure is logged and the loop continues
NextSuggestion(i, n, ok) == i + 1

\* totalErrors++ after a failed StoreAnomalies call
IgnoreBatchFailure(errors) == errors
CountBatchFailure(errors) == errors + 1

\* where the result loop goes after a result that carries an error
ResultLoopBreak == "done"
ResultLoopAfterError == "collect"

\* for result := range results: the next result is received; a result with
\* an error is counted, one without anomalies is logged, one with anomalies
\* goes to StoreAnomalies
ProcessResult ==
  /\ dpc = "collect"
  /\ results # <<>>
  /\ LET r == Head(results) IN
       /\ results' = Tail(results)
       /\ locationCount' = locationCount + 1
       /\ IF r.error
          THEN /\ totalErrors' = totalErrors + 1
               /\ dpc' = ResultLoopAfterError
               /\ UNCHANGED loopResult
          ELSE IF Len(r.anomalies) > 0
          THEN /\ dpc' = "store"
               /\ loopResult' = [location |-> r.location,
                                 anomalies |-> r.anomalies,
                                 suggestions |-> r.suggestions, next |-> 1]
               /\ UNCHANGED totalErrors
          ELSE UNCHANGED <<dpc, totalErrors, loopResult>>
  /\ UNCHANGED <<pushed, jobs, jobsClosed, resultsClosed, wpc, wjob,
                 anomTable, suggTable, totalAnomalies, totalSuggestions,
                 returned, insertFailed, taken, sent, sendOnClosed, storeCalls,
                 statsDiscarded, suggSkipped,
                 otherVars>>

\* db.StoreAnomalies(result.Anomalies) returns: the transaction is committed
\* or was rolled back
StoreBatch ==
  /\ dpc = "store"
  /\ \E failAt \in 0..(Len(loopResult.anomalies) + 1) :
       LET st == StoreAnomalies(anomTable, loopResult.anomalies, failAt)
           toSuggest == SuggestionsWritten(st.err)
                          /\ loopResult.suggestions > 0
       IN /\ storeCalls' = [storeCalls EXCEPT ![loopResult.location] = @ + 1]
          /\ anomTable' = st.table
          /\ IF st.err
             THEN /\ totalErrors' = CountBatchFailure(totalErrors)
                  /\ insertFailed' = insertFailed \cup {loopResult.location}
                  /\ UNCHANGED totalAnomalies
             ELSE /\ totalAnomalies' =
                       totalAnomalies + Len(loopResult.anomalies)
                  /\ UNCHANGED <<totalErrors, insertFailed>>
          /\ dpc' = IF toSuggest THEN "suggest" ELSE "collect"
          /\ loopResult' = IF toSuggest THEN loopResult ELSE NoLoopResult
  /\ UNCHANGED <<pushed, jobs, jobsClosed, results, resultsClosed, wpc, wjob,
                 suggTable, totalSuggestions, locationCount, returned, taken,
                 sent, sendOnClosed, statsDiscarded, suggSkipped, otherVars>>

\* how the insert of suggestion i may end: the first and the second succeed
\* or fail, the later ones end as the second did
SuggestionOutcomes(i, secondWritten) ==
  IF i >= 3 THEN {secondWritten} ELSE BOOLEAN

\* db.StoreAlarmSuggestion for the next suggestion of the result: one INSERT
StoreSuggestion ==
  /\ dpc = "suggest"
  /\ \E ok \in SuggestionOutcomes(
                  loopResult.next,
                  [location |-> loopResult.location, n |-> 2] \in suggTable) :
       LET i == loopResult.next
           n == loopResult.suggestions
           nx == NextSuggestion(i, n, ok)
       IN /\ suggTable' = IF ok
                          THEN suggTable \cup
                                 {[location |-> loopResult.location, n |-> i]}
                          ELSE suggTable
          /\ totalSuggestions' = IF ok THEN totalSuggestions + 1
                                 ELSE totalSuggestions
          /\ suggSkipped' = (suggSkipped \/ nx > i + 1)
          /\ IF nx > n
             THEN dpc' = "collect" /\ loopResult' = NoLoopResult
             ELSE /\ loopResult' = [loopResult EXCEPT !.next = nx]
                  /\ UNCHANGED dpc
  /\ UNCHANGED <<pushed, jobs, jobsClosed, results, resultsClosed, wpc, wjob,
                 anomTable, totalAnomalies, totalErrors, locationCount,
                 returned, insertFailed, taken, sent, sendOnClosed, storeCalls,
                 statsDiscarded, otherVars>>

\* the rows of the anomalies table that the HTTP handler wrote
ServerRows == {a \in anomTable : a.src = "server"}

\* DB.StoreAnomaly, called by the HTTP handler for each anomaly of its own
\* detection of the first location: one INSERT outside any transaction
StoreAnomaly ==
  /\ Cardinality(ServerRows) < MaxServerRows
  /\ anomTable' = anomTable \cup
       {[location |-> 1, src |-> "server", n |-> Cardinality(ServerRows) + 1]}
  /\ UNCHANGED <<dpc, pushed, jobs, jobsClosed, results, resultsClosed, wpc,
                 wjob, suggTable, totalAnomalies, totalSuggestions,
                 totalErrors, locationCount, returned, insertFailed, taken,
                 sent, sendOnClosed, storeCalls, statsDiscarded, suggSkipped, loopResult, otherVars>>

\* the range over results ends: the channel is closed and drained
FinishRun ==
  /\ dpc = "collect"
  /\ results = <<>>
  /\ resultsClosed
  /\ dpc' = "done"
  /\ UNCHANGED <<pushed, jobs, jobsClosed, results, resultsClosed, wpc, wjob,
                 anomTable, suggTable, totalAnomalies, totalSuggestions,
                 totalErrors, locationCount, returned, insertFailed, taken, sent, sendOnClosed, storeCalls, statsDiscarded, suggSkipped, loopResult, otherVars>>

DetectInit ==
  /\ LibIdle
  /\ CollectIdle
  /\ StreamEmpty
  /\ PersistIdle
  /\ MLIdle
  /\ dpc = "produce"
  /\ pushed = 0
  /\ jobs = <<>>
  /\ jobsClosed = FALSE
  /\ results = <<>>
  /\ resultsClosed = FALSE
  /\ wpc = [w \in Workers |-> "idle"]
  /\ wjob = [w \in Workers |-> 0]
  /\ anomTable = {}
  /\ suggTable = {}
  /\ totalAnomalies = 0
  /\ totalSuggestions = 0
  /\ totalErrors = 0
  /\ locationCount = 0
  /\ returned = [l \in DetectLocations |->
                   [done |-> FALSE, err |-> FALSE, anomalies |-> <<>>]]
  /\ insertFailed = {}
  /\ taken = [l \in DetectLocations |-> 0]
  /\ sent = [l \in DetectLocations |-> 0]
  /\ sendOnClosed = FALSE
  /\ storeCalls = [l \in DetectLocations |-> 0]
  /\ statsDiscarded = FALSE
  /\ suggSkipped = FALSE
  /\ loopResult = NoLoopResult

\* the Detector run
DetectNext ==
  \/ Produce
  \/ CloseJobs
  \/ \E w \in Workers : TakeJob(w)
  \/ \E w \in Workers : WorkerDetect(w)
  \/ \E w \in Workers : WorkerExit(w)
  \/ CloseResults
  \/ ProcessResult
  \/ StoreBatch
  \/ StoreSuggestion
  \/ FinishRun

\* the Detector run while the HTTP server writes to the same table
DetectServerNext ==
  \/ Produce
  \/ CloseJobs
  \/ \E w \in Workers : TakeJob(w)
  \/ \E w \in Workers : WorkerDetect(w)
  \/ \E w \in Workers : WorkerExit(w)
  \/ CloseResults
  \/ ProcessResult
  \/ StoreBatch
  \/ StoreSuggestion
  \/ FinishRun
  \/ StoreAnomaly

SpecDetect == DetectInit /\ [][DetectServerNext]_vars

\* every goroutine of the run that can run does run: a detection returns, a
\* channel operation that can proceed does, a call to the database returns
FairSpecDetect == DetectInit /\ [][DetectNext]_vars /\ WF_vars(DetectNext)

\* the rows of the anomalies table that the run wrote, and those of them of
\* location l
RunRows == anomTable \ ServerRows
RowsOf(l) == {a \in RunRows : a.location = l}

\* C6: whatever happened to the other locations of the run, the anomalies
\* written for a location are those its own detection returned: never any
\* other row, and all of them once the run has ended, unless the location's
\* own detection or its own batch insert failed.
C6_Isolation ==
  \A b \in DetectLocations :
    /\ RowsOf(b) \subseteq SeqToSet(returned[b].anomalies)
    /\ dpc = "done" =>
         /\ returned[b].done
         /\ (~returned[b].err /\ b \notin insertFailed) =>
              RowsOf(b) = SeqToSet(returned[b].anomalies)

C6_Witness ==
  /\ dpc = "done"
  /\ \E a, b \in DetectLocations :
       /\ returned[a].done /\ returned[a].err
       /\ returned[b].done /\ ~returned[b].err
       /\ RowsOf(b) # {}
       /\ a < b

\* C11: every location is received from jobs by one worker and gets one
\* DetectionResult; results is closed only when all workers have exited, no
\* result is sent after the close, and the result loop consumes n results.
C11_ExactlyOnce ==
  /\ \A l \in DetectLocations : taken[l] <= 1 /\ sent[l] <= taken[l]
  /\ ~sendOnClosed
  /\ resultsClosed => \A w \in Workers : wpc[w] = "exited"
  /\ dpc = "done" =>
       /\ locationCount = NumDetectLocations
       /\ \A l \in DetectLocations : taken[l] = 1 /\ sent[l] = 1

C11_Witness ==
  /\ dpc = "done"
  /\ resultsClosed
  /\ locationCount = NumDetectLocations
  /\ NumDetectLocations >= 2
  /\ \A l \in DetectLocations : sent[l] = 1

\* min(50, n)
NumWorkersFor(n) == IF n < defaultWorkers THEN n ELSE defaultWorkers

\* C12: the run starts min(50, n) workers and terminates: the producer never
\* finds jobs full, no worker finds results full, and the result loop ends.
C12_Terminates ==
  /\ [](/\ Cardinality(Workers) = NumWorkersFor(NumDetectLocations)
        /\ \A n \in 1..(2 * defaultWorkers) :
             NumWorkersFor(n) = Min(defaultWorkers, n)
        /\ (dpc = "produce" /\ pushed < NumDetectLocations) =>
             Len(jobs) < ChanCap
        /\ \A w \in Workers : wpc[w] = "detecting" => Len(results) < ChanCap)
  /\ <>(dpc = "done")

C12_Witness ==
  /\ dpc = "done"
  /\ jobs = <<>> /\ results = <<>>
  /\ \A w \in Workers : wpc[w] = "exited"
  /\ totalErrors > 0
  /\ totalAnomalies > 0

\* C20: a location whose batch insert failed has no row in the anomalies
\* table, a location's rows are all of its batch or none, and storing an
\* empty batch returns success and leaves the table as it is.
C20_AllOrNothing ==
  /\ \A l \in insertFailed : RowsOf(l) = {}
  /\ \A l \in DetectLocations :
       RowsOf(l) \in {{}, SeqToSet(returned[l].anomalies)}
  /\ \A failAt \in 0..1 :
       StoreAnomalies(anomTable, <<>>, failAt) =
         [err |-> FALSE, table |-> anomTable]

C20_Witness ==
  \E a, b \in DetectLocations :
    /\ a \in insertFailed /\ Len(returned[a].anomalies) >= 2
    /\ RowsOf(a) = {}
    /\ b \notin insertFailed /\ RowsOf(b) # {}

\* C21: a failed batch insert is retried once: a location is recorded as
\* failed only after two StoreAnomalies calls for its result.
C21_RetryOnce == \A l \in insertFailed : storeCalls[l] = 2

\* C26: when a detection fails, also in its ML pass after the statistical
\* pass found anomalies, DetectAnomalies returns no anomalies, the result
\* carries only the error, and no row is written for the location.
C26_ErrorDropsStats ==
  /\ \A l \in DetectLocations :
       returned[l].err => returned[l].anomalies = <<>> /\ RowsOf(l) = {}
  /\ \A n \in 1..Len(results) :
       results[n].error =>
         results[n].anomalies = <<>> /\ results[n].suggestions = 0

C26_Witness ==
  /\ statsDiscarded
  /\ dpc = "done"
  /\ \E l \in DetectLocations : returned[l].err /\ RowsOf(l) = {}
  /\ totalErrors = NumDetectLocations

\* the rows of the alarm_suggestions table written for location l
SuggRowsOf(l) == {g \in suggTable : g.location = l}

\* C31: suggestions of a result are written only if its anomaly batch was
\* stored: a location whose batch insert failed, whose detection failed or
\* found nothing has no suggestion row; and every suggestion of a stored
\* result is handed to the store, whatever happened to the ones before it.
C31_SuggestionsAfterBatch ==
  /\ \A l \in DetectLocations :
       /\ (l \in insertFailed \/ returned[l].err
             \/ returned[l].anomalies = <<>>) => SuggRowsOf(l) = {}
       /\ SuggRowsOf(l) # {} =>
            /\ RowsOf(l) # {}
            /\ RowsOf(l) = SeqToSet(returned[l].anomalies)
  /\ ~suggSkipped

C31_Witness ==
  \E a, b \in DetectLocations :
    /\ a \in insertFailed /\ SuggRowsOf(a) = {}
    /\ RowsOf(b) # {}
    /\ [location |-> b, n |-> 1] \notin suggTable
    /\ [location |-> b, n |-> 2] \in suggTable

\* the summary line "Locations: %d processed, %d errors"
SummaryProcessed == locationCount - totalErrors
SummaryErrors == totalErrors

\* the sizes of the batches of the locations 1..n that were stored, summed
RECURSIVE StoredTotal(_)
StoredTotal(n) ==
  IF n = 0 THEN 0
  ELSE StoredTotal(n - 1)
       + (IF returned[n].done /\ ~returned[n].err /\ n \notin insertFailed
             /\ storeCalls[n] > 0
          THEN Len(returned[n].anomalies) ELSE 0)

\* C40: at the end of a run over n locations, processed plus errors is n, the
\* error count is the number of results with a detection error or a failed
\* batch insert, and the anomaly total is the sum of the sizes of the batches
\* that were stored.
C40_SummaryConsistent ==
  dpc = "done" =>
    /\ SummaryProcessed + SummaryErrors = NumDetectLocations
    /\ SummaryErrors =
         Cardinality({l \in DetectLocations : returned[l].err})
         + Cardinality(insertFailed)
    /\ {l \in DetectLocations : returned[l].err} \cap insertFailed = {}
    /\ totalAnomalies = StoredTotal(NumDetectLocations)
    /\ totalAnomalies = Cardinality(RunRows)

C40_Witness ==
  /\ dpc = "done"
  /\ insertFailed # {}
  /\ totalErrors = Cardinality(insertFailed)
  /\ totalAnomalies = 2 * MaxAnomalies
  /\ SummaryProcessed >= 1

\* ======================================================== z-score pass
\* all sequences over S of length at most n
SeqsUpTo(S, n) == UNION {[1..k -> S] : k \in 0..n}

Abs(x) == IF x < 0 THEN -x ELSE x

\* z-scores are kept exact: the fraction num/den with den > 0
CalculateZScore(value, mean, stdDev) ==
  IF stdDev = 0 THEN [num |-> 0, den |-> 1]
  ELSE [num |-> value - mean, den |-> stdDev]

\* math.Abs(z) > p/q, for q > 0
AbsExceeds(z, p, q) == Abs(z.num) * q > p * z.den

IsOutlierInclusive(zScore) == Abs(zScore.num) >= zScore.den
IsOutlier(zScore) == AbsExceeds(zScore, 1, 1)

calculateSeverityFromZScore(zScore) ==
  IF AbsExceeds(zScore, 2, 1) THEN "high"
  ELSE IF AbsExceeds(zScore, 3, 2) THEN "medium"
  ELSE "low"

\* if stdDev == 0 { continue }: a baseline without variation is skipped
StatsStart ==
  /\ zpc = "start"
  /\ zpc' = IF baseStdDev = 0 THEN "done" ELSE "loop"
  /\ UNCHANGED <<baseMean, baseStdDev, recent, checked, statAnomalies,
                 serviceVars, suggestVars, seedVars, callVars>>

\* one iteration of the loop over the recent values of the metric type
CheckRecent ==
  /\ zpc = "loop"
  /\ recent # <<>>
  /\ LET value == Head(recent)
         zScore == CalculateZScore(value, baseMean, baseStdDev)
     IN /\ checked' = Append(checked, [value |-> value,
                                       flagged |-> IsOutlier(zScore)])
        /\ statAnomalies' =
             IF IsOutlier(zScore)
             THEN Append(statAnomalies,
                         [value |-> value, zScore |-> zScore,
                          severity |-> calculateSeverityFromZScore(zScore)])
             ELSE statAnomalies
  /\ recent' = Tail(recent)
  /\ UNCHANGED <<zpc, baseMean, baseStdDev, serviceVars, suggestVars,
                 seedVars, callVars>>

\* the loop over the recent values ends
StatsReturn ==
  /\ zpc = "loop"
  /\ recent = <<>>
  /\ zpc' = "done"
  /\ UNCHANGED <<baseMean, baseStdDev, recent, checked, statAnomalies,
                 serviceVars, suggestVars, seedVars, callVars>>

StatsInit ==
  /\ CollectIdle
  /\ StreamEmpty
  /\ PersistIdle
  /\ MLIdle
  /\ DetectIdle
  /\ SuggestIdle
  /\ SeedIdle
  /\ CallIdle
  /\ zpc = "start"
  /\ baseMean \in -1..1
  /\ baseStdDev \in 0..MaxStdDev
  /\ recent \in SeqsUpTo((-MaxDeviation)..MaxDeviation, MaxRecent)
  /\ checked = <<>>
  /\ statAnomalies = <<>>

StatsNext ==
  \/ StatsStart
  \/ CheckRecent
  \/ StatsReturn

SpecStats == StatsInit /\ [][StatsNext]_vars

\* the entries of checked that were flagged
RECURSIVE Flagged(_)
Flagged(q) ==
  IF q = <<>> THEN <<>>
  ELSE IF Head(q).flagged THEN <<Head(q).value>> \o Flagged(Tail(q))
  ELSE Flagged(Tail(q))

\* C23: with a baseline of mean m and standard deviation s > 0, a recent value
\* v is flagged iff |v - m| / s > 1, strictly, and a flagged value's severity
\* is high iff |z| > 2, medium iff 1.5 < |z| <= 2 and low otherwise.
C23_ZScoreRule ==
  baseStdDev > 0 =>
    /\ \A i \in 1..Len(checked) :
         checked[i].flagged <=>
           Abs(checked[i].value - baseMean) > baseStdDev
    /\ Flagged(checked) = [i \in 1..Len(statAnomalies) |->
                             statAnomalies[i].value]
    /\ \A i \in 1..Len(statAnomalies) :
         LET a == statAnomalies[i]
             d == Abs(a.value - baseMean)
         IN /\ a.zScore = [num |-> a.value - baseMean, den |-> baseStdDev]
            /\ a.severity = "high" <=> d > 2 * baseStdDev
            /\ a.severity = "medium" <=>
                 (2 * d > 3 * baseStdDev /\ d <= 2 * baseStdDev)
            /\ a.severity = "low" <=> 2 * d <= 3 * baseStdDev

C23_Witness ==
  /\ zpc = "done"
  /\ baseStdDev > 0
  /\ \E i \in 1..Len(checked) :
       /\ Abs(checked[i].value - baseMean) = baseStdDev
       /\ ~checked[i].flagged
  /\ \E i \in 1..Len(statAnomalies) :
       /\ Abs(statAnomalies[i].value - baseMean) = 2 * baseStdDev
       /\ statAnomalies[i].severity = "medium"

\* ======================================================= AlarmSuggester
\* the metric types of the anomalies; dew_point_2m has no case in the switch
MetricTypes == {"temperature_2m", "relative_humidity_2m", "precipitation",
                "wind_speed_10m", "dew_point_2m"}

\* the anomaly values drawn: below, on, between and above the limits 0 and 30
\* of temperature_2m and 20 and 80 of relative_humidity_2m
SuggestValues == {-3, 0, 20, 30, 33, 80, 90}

RECURSIVE SumOf(_)
SumOf(values) ==
  IF values = <<>> THEN 0 ELSE Head(values) + SumOf(Tail(values))

\* the mean, kept exact as the fraction num/den
calculateMean(values) ==
  IF Len(values) = 0 THEN [num |-> 0, den |-> 1]
  ELSE [num |-> SumOf(values), den |-> Len(values)]

\* the sum of (v - mean)^2 times den^2, for mean = num/den
RECURSIVE SumSqDev(_, _)
SumSqDev(values, mean) ==
  IF values = <<>> THEN 0
  ELSE (Head(values) * mean.den - mean.num)
         * (Head(values) * mean.den - mean.num)
       + SumSqDev(Tail(values), mean)

\* calculateStdDev up to its last step: the sample variance, kept exact as a
\* fraction; the standard deviation is its square root
calculateVariance(values, mean) ==
  IF Len(values) <= 1 THEN [num |-> 0, den |-> 1]
  ELSE [num |-> SumSqDev(values, mean),
        den |-> mean.den * mean.den * (Len(values) - 1)]

\* mean > limit and mean < limit
MeanAbove(mean, limit) == mean.num > limit * mean.den
MeanBelow(mean, limit) == mean.num < limit * mean.den

\* a threshold is mean + k * sqrt(variance); the zero value of float64 is
\* the threshold with mean 0, k 0
ZeroThreshold ==
  [mean |-> [num |-> 0, den |-> 1], k |-> 0, variance |-> [num |-> 0, den |-> 1]]

\* dn / mden > k * sqrt(variance), decided by squaring
GreaterThanRoot(dn, mden, k, variance) ==
  IF k >= 0
  THEN dn > 0 /\ dn * dn * variance.den > k * k * variance.num * mden * mden
  ELSE dn > 0 \/ dn * dn * variance.den < k * k * variance.num * mden * mden

\* v > threshold and v < threshold
Greater(v, t) ==
  GreaterThanRoot(v * t.mean.den - t.mean.num, t.mean.den, t.k, t.variance)
Less(v, t) ==
  GreaterThanRoot(t.mean.num - v * t.mean.den, t.mean.den, -t.k, t.variance)

\* the condition under which the loop of calculateConfidence counts a value
TriggersInclusive(v, threshold, operator) ==
  \/ operator = ">" /\ ~Less(v, threshold)
  \/ operator = "<" /\ ~Greater(v, threshold)
Triggers(v, threshold, operator) ==
  \/ operator = ">" /\ Greater(v, threshold)
  \/ operator = "<" /\ Less(v, threshold)

RECURSIVE TriggeredCount(_, _, _)
TriggeredCount(values, threshold, operator) ==
  IF values = <<>> THEN 0
  ELSE (IF Triggers(Head(values), threshold, operator) THEN 1 ELSE 0)
       + TriggeredCount(Tail(values), threshold, operator)

\* the ratio triggeredCount / len(values), kept exact
calculateConfidence(values, threshold, operator) ==
  IF Len(values) = 0 THEN [num |-> 0, den |-> 1]
  ELSE [num |-> TriggeredCount(values, threshold, operator),
        den |-> Len(values)]

\* what the switch on the metric type assigns: set is FALSE where a case
\* assigns nothing, known is FALSE for the default case
SwitchOnMetricType(metricType, mean) ==
  CASE metricType = "temperature_2m" ->
         IF MeanAbove(mean, 30)
         THEN [known |-> TRUE, set |-> TRUE, k |-> 2, operator |-> ">"]
         ELSE IF MeanBelow(mean, 0)
         THEN [known |-> TRUE, set |-> TRUE, k |-> -2, operator |-> "<"]
         ELSE [known |-> TRUE, set |-> FALSE, k |-> 0, operator |-> ""]
    [] metricType = "relative_humidity_2m" ->
         IF MeanAbove(mean, 80)
         THEN [known |-> TRUE, set |-> TRUE, k |-> 1, operator |-> ">"]
         ELSE IF MeanBelow(mean, 20)
         THEN [known |-> TRUE, set |-> TRUE, k |-> -1, operator |-> "<"]
         ELSE [known |-> TRUE, set |-> FALSE, k |-> 0, operator |-> ""]
    [] metricType \in {"precipitation", "wind_speed_10m"} ->
         [known |-> TRUE, set |-> TRUE, k |-> 2, operator |-> ">"]
    [] OTHER ->
         [known |-> FALSE, set |-> FALSE, k |-> 0, operator |-> ""]

\* generateSuggestion(metricType, anomalies), on the anomalies' values; the
\* result is the set holding the suggestion, empty for nil
generateSuggestion(metricType, values) ==
  IF Len(values) = 0 THEN {}
  ELSE LET mean == calculateMean(values)
           variance == calculateVariance(values, mean)
           sw == SwitchOnMetricType(metricType, mean)
           threshold == IF sw.set
                        THEN [mean |-> mean, k |-> sw.k, variance |-> variance]
                        ELSE ZeroThreshold
       IN IF ~sw.known THEN {}
          ELSE {[metricType |-> metricType,
                 threshold |-> threshold,
                 operator |-> sw.operator,
                 confidence |-> calculateConfidence(values, threshold,
                                                    sw.operator),
                 anomalyCount |-> Len(values)]}

\* the values of the anomalies of one metric type, in order
RECURSIVE ValuesOfType(_, _)
ValuesOfType(anomalies, t) ==
  IF anomalies = <<>> THEN <<>>
  ELSE IF Head(anomalies).metricType = t
  THEN <<Head(anomalies).value>> \o ValuesOfType(Tail(anomalies), t)
  ELSE ValuesOfType(Tail(anomalies), t)

\* the early return for an empty argument, else the grouping loop
GroupAnomalies ==
  /\ gpc = "start"
  /\ IF Len(sgAnomalies) = 0
     THEN /\ gpc' = "done"
          /\ UNCHANGED <<anomaliesByType, pendingTypes>>
     ELSE LET types == {sgAnomalies[i].metricType : i \in 1..Len(sgAnomalies)}
          IN /\ anomaliesByType' =
                  [t \in types |-> ValuesOfType(sgAnomalies, t)]
             /\ pendingTypes' = types
             /\ gpc' = "range"
  /\ UNCHANGED <<sgAnomalies, suggestions, serviceVars, statsVars,
                 seedVars, callVars>>

\* len(typeAnomalies) >= as.minAnomaliesForSuggestion
MeetsMinimumAlways(n) == TRUE
MeetsMinimum(n) == n >= minAnomaliesForSuggestion

\* one iteration of the range over the map, whose order is not fixed
RangeStep ==
  /\ gpc = "range"
  /\ \E t \in pendingTypes :
       /\ pendingTypes' = pendingTypes \ {t}
       /\ suggestions' =
            IF MeetsMinimum(Len(anomaliesByType[t]))
            THEN suggestions \cup generateSuggestion(t, anomaliesByType[t])
            ELSE suggestions
  /\ UNCHANGED <<gpc, sgAnomalies, anomaliesByType, serviceVars, statsVars,
                 seedVars, callVars>>

\* return suggestions
SuggestReturn ==
  /\ gpc = "range"
  /\ pendingTypes = {}
  /\ gpc' = "done"
  /\ UNCHANGED <<sgAnomalies, anomaliesByType, pendingTypes, suggestions,
                 serviceVars, statsVars, seedVars, callVars>>

\* the argument: the anomalies of one metric type followed by none or three
\* anomalies of wind_speed_10m
SuggestInit ==
  /\ CollectIdle
  /\ StreamEmpty
  /\ PersistIdle
  /\ MLIdle
  /\ DetectIdle
  /\ StatsIdle
  /\ SeedIdle
  /\ CallIdle
  /\ gpc = "start"
  /\ \E t \in MetricTypes, values \in SeqsUpTo(SuggestValues, MaxGroup),
        n \in {0, minAnomaliesForSuggestion} :
       sgAnomalies =
         [i \in 1..Len(values) |-> [metricType |-> t, value |-> values[i]]]
         \o [i \in 1..n |-> [metricType |-> "wind_speed_10m", value |-> 5]]
  /\ anomaliesByType = <<>>
  /\ pendingTypes = {}
  /\ suggestions = {}

SuggestNext ==
  \/ GroupAnomalies
  \/ RangeStep
  \/ SuggestReturn

SpecSuggest == SuggestInit /\ [][SuggestNext]_vars

\* C24: no suggestion is emitted for a temperature_2m group whose mean lies in
\* [0, 30] nor for a relative_humidity_2m group whose mean lies in [20, 80],
\* and every emitted suggestion has the operator ">" or "<".
C24_NoSuggestionInRange ==
  \A sg \in suggestions :
    LET mean == calculateMean(anomaliesByType[sg.metricType])
    IN /\ sg.operator \in {">", "<"}
       /\ ~(/\ sg.metricType = "temperature_2m"
            /\ ~MeanBelow(mean, 0)
            /\ ~MeanAbove(mean, 30))
       /\ ~(/\ sg.metricType = "relative_humidity_2m"
            /\ ~MeanBelow(mean, 20)
            /\ ~MeanAbove(mean, 80))

\* v op T for the comparison operators
Satisfies(v, op, t) == IF op = ">" THEN Greater(v, t) ELSE Less(v, t)

\* C25: the confidence of a suggestion with operator op and threshold T over
\* the group's values V is the number of v in V with v op T divided by |V|,
\* and it lies in [0, 1].
C25_Confidence ==
  \A sg \in suggestions :
    LET V == anomaliesByType[sg.metricType]
    IN /\ sg.confidence.den > 0
       /\ sg.confidence.num >= 0
       /\ sg.confidence.num <= sg.confidence.den
       /\ sg.operator \in {">", "<"} =>
            /\ sg.confidence.den = Len(V)
            /\ sg.confidence.num =
                 Cardinality({i \in 1..Len(V) :
                                Satisfies(V[i], sg.operator, sg.threshold)})

C25_Witness ==
  /\ gpc = "done"
  /\ \E sg \in suggestions :
       /\ sg.operator = ">"
       /\ sg.confidence.num > 0
       /\ sg.confidence.num < sg.confidence.den
  /\ \E sg \in suggestions :
       /\ sg.operator = ">"
       /\ sg.confidence.num = 0
       /\ sg.anomalyCount = minAnomaliesForSuggestion

\* the anomalies of the argument that have the given metric type
OfType(t) == {i \in 1..Len(sgAnomalies) : sgAnomalies[i].metricType = t}

\* C38: SuggestAlarms emits at most one suggestion per metric type and only
\* for a metric type with at least three anomalies in the argument; the
\* suggestion's anomaly count is the number of anomalies of that type; an empty
\* argument gives no suggestion.
C38_OnePerLargeGroup ==
  /\ \A sg \in suggestions :
       /\ Cardinality(OfType(sg.metricType)) >= minAnomaliesForSuggestion
       /\ sg.anomalyCount = Cardinality(OfType(sg.metricType))
       /\ \A other \in suggestions :
            other.metricType = sg.metricType => other = sg
  /\ Len(sgAnomalies) = 0 => suggestions = {}

C38_Witness ==
  /\ gpc = "done"
  /\ \E sg \in suggestions :
       /\ sg.metricType = "wind_speed_10m"
       /\ sg.anomalyCount = minAnomaliesForSuggestion
  /\ \E t \in DOMAIN anomaliesByType :
       /\ Len(anomaliesByType[t]) = minAnomaliesForSuggestion - 1
       /\ \A sg \in suggestions : sg.metricType # t

\* ========================================================== seed import
\* the location names of the seed file
SeedNames == {"X", "Y"}

\* what reading and parsing a record gives: usable, a latitude or longitude
\* that does not parse, or a record csv.Reader rejects (its field count
\* differs from the header's, or its quoting is broken)
RecordKinds == {"ok", "badLat", "badLon", "malformed"}

\* the rows of the table with the given name
RowsNamed(table, name) == {i \in 1..Len(table) : table[i].name = name}

\* UNIQUE KEY unique_location_name (name): the insert is rejected with
\* "Duplicate entry" when a row with the name exists
UniqueKeyOff(table, name) == FALSE
IsDuplicate(table, name) == RowsNamed(table, name) # {}

\* InsertLocation(name, latitude, longitude); dbFail: Exec fails for another
\* reason than the unique key. src tells the rows of one name apart.
InsertLocation(table, name, src, dbFail) ==
  IF dbFail
  THEN [err |-> "failed to insert location", table |-> table]
  ELSE IF IsDuplicate(table, name)
  THEN [err |-> "duplicate location", table |-> table]
  ELSE [err |-> "nil", table |-> Append(table, [name |-> name, src |-> src])]

\* one iteration of the import loop on the next record
SeedRead ==
  /\ seedpc = "loop"
  /\ csvPos < Len(csvRows)
  /\ LET record == csvRows[csvPos + 1] IN
       IF record.kind = "malformed"
       THEN /\ seedpc' = "fatal"
            /\ UNCHANGED <<csvPos, locations, seedCount, seedSkipped, callLog>>
       ELSE IF record.kind \in {"badLat", "badLon"}
       THEN /\ seedSkipped' = seedSkipped + 1
            /\ csvPos' = csvPos + 1
            /\ UNCHANGED <<seedpc, locations, seedCount, callLog>>
       ELSE \E dbFail \in BOOLEAN :
            LET r == InsertLocation(locations, record.name, csvPos + 1, dbFail)
            IN /\ locations' = r.table
               /\ callLog' = Append(callLog,
                                    [name |-> record.name,
                                     existed |->
                                       RowsNamed(locations, record.name) # {},
                                     dbFail |-> dbFail,
                                     err |-> r.err])
               /\ IF r.err # "nil"
                  THEN /\ seedSkipped' = seedSkipped + 1
                       /\ UNCHANGED seedCount
                  ELSE /\ seedCount' = seedCount + 1
                       /\ UNCHANGED seedSkipped
               /\ csvPos' = csvPos + 1
               /\ UNCHANGED seedpc
  /\ UNCHANGED <<csvRows, serviceVars, statsVars, suggestVars, callVars>>

\* reader.Read returns io.EOF: break
SeedEOF ==
  /\ seedpc = "loop"
  /\ csvPos = Len(csvRows)
  /\ seedpc' = "done"
  /\ UNCHANGED <<csvRows, csvPos, locations, seedCount, seedSkipped, callLog,
                 serviceVars, statsVars, suggestVars, callVars>>

\* the table is empty or holds X from an earlier import
SeedInit ==
  /\ CollectIdle
  /\ StreamEmpty
  /\ PersistIdle
  /\ MLIdle
  /\ DetectIdle
  /\ StatsIdle
  /\ SuggestIdle
  /\ CallIdle
  /\ seedpc = "loop"
  /\ csvRows \in SeqsUpTo([name : SeedNames, kind : RecordKinds], MaxSeedRows)
  /\ csvPos = 0
  /\ locations \in {<<>>, <<[name |-> "X", src |-> 0]>>}
  /\ seedCount = 0
  /\ seedSkipped = 0
  /\ callLog = <<>>

SeedNext ==
  \/ SeedRead
  \/ SeedEOF

SpecSeed == SeedInit /\ [][SeedNext]_vars

\* C22: after any sequence of InsertLocation calls with duplicates of a name
\* there is exactly one row of that name, every call for a name that already
\* had a row returns the duplicate-location error (when the database answers
\* the insert), and the import skips such a record and goes on with the rest.
C22_OneRowPerName ==
  /\ \A name \in SeedNames :
       /\ Cardinality(RowsNamed(locations, name)) <= 1
       /\ (\E i \in 1..Len(callLog) :
             callLog[i].name = name /\ ~callLog[i].dbFail)
            => Cardinality(RowsNamed(locations, name)) = 1
  /\ \A i \in 1..Len(callLog) :
       /\ (callLog[i].existed /\ ~callLog[i].dbFail)
            => callLog[i].err = "duplicate location"
       /\ callLog[i].err = "duplicate location" => callLog[i].existed
  /\ seedpc = "fatal" => csvRows[csvPos + 1].kind = "malformed"
  /\ seedCount + seedSkipped = csvPos
  /\ seedCount = Cardinality({i \in 1..Len(callLog) : callLog[i].err = "nil"})
  /\ seedpc = "done" => csvPos = Len(csvRows)

C22_Witness ==
  /\ seedpc = "done"
  /\ Len(callLog) = 3
  /\ callLog[1].name = callLog[2].name
  /\ callLog[1].err = "nil"
  /\ callLog[2].err = "duplicate location"
  /\ callLog[3].err = "nil"
  /\ seedCount = 2
  /\ seedSkipped = 1
  /\ Cardinality(RowsNamed(locations, callLog[1].name)) = 1

\* ==================================================== one StoreMetrics call
\* the field names of the call: two monitored fields and one that is not a
\* key of the fieldData maps
StoreFieldNames == {"temperature_2m", "relative_humidity_2m", "pressure_msl"}

\* the fields with a series or a value in the forecast
SeriesFields == {"temperature_2m", "relative_humidity_2m"}

\* lists of distinct field names
FieldLists ==
  {fs \in SeqsUpTo(StoreFieldNames, Cardinality(StoreFieldNames)) :
     \A i, j \in 1..Len(fs) : i # j => fs[i] # fs[j]}

\* db.StoreMetrics(forecast, location, fields, isInitial) on an empty table
StoreCall ==
  /\ spc = "call"
  /\ stResult' = StoreMetrics({}, 1, stForecast, 1, stFields, stInitial,
                              stFailAt)
  /\ spc' = "done"
  /\ UNCHANGED <<stForecast, stFields, stInitial, stFailAt,
                 serviceVars, statsVars, suggestVars, seedVars, runVars,
                 passVars>>

\* the arguments: an hourly series of up to MaxTimes timestamps, some of which
\* may not parse, a value count per field, the fields with a current value,
\* the requested fields, the mode, and whether the database fails
StoreInit ==
  /\ CollectIdle
  /\ StreamEmpty
  /\ PersistIdle
  /\ MLIdle
  /\ DetectIdle
  /\ StatsIdle
  /\ SuggestIdle
  /\ SeedIdle
  /\ RunIdle
  /\ PassIdle
  /\ spc = "call"
  /\ \E times \in 0..MaxTimes :
       \E bad \in SUBSET (1..times), a \in 0..MaxTimes, b \in 0..MaxTimes,
          cur \in SUBSET SeriesFields :
         stForecast =
           [times |-> times,
            badTimes |-> bad,
            hourly |-> [f \in SeriesFields |->
                          IF f = "temperature_2m" THEN a ELSE b],
            current |-> cur]
  /\ stFields \in FieldLists
  /\ stInitial \in BOOLEAN
  /\ stFailAt \in {0, 1}
  /\ stResult = NoResult

StoreNext == StoreCall

SpecStore == StoreInit /\ [][StoreNext]_vars

\* the rows the call stored for a field, and their timestamps
FieldRows(f) == {r \in stResult.table : r.field = f}
FieldTimes(f) == {r.t : r \in FieldRows(f)}

\* the number of values of the field's hourly series
ValueCount(f) ==
  IF f \in DOMAIN stForecast.hourly THEN stForecast.hourly[f] ELSE 0

\* C36 as stated: after a historical call the database answered, every
\* requested monitored field whose value count equals the timestamp count has
\* one row per timestamp, and every other requested field has no row.
C36_RowPerTimestamp ==
  (spc = "done" /\ stInitial /\ stFailAt = 0) =>
    \A i \in 1..Len(stFields) :
      LET f == stFields[i]
      IN /\ FieldTimes(f) =
              IF f \in KnownFields /\ ValueCount(f) = stForecast.times
              THEN 1..stForecast.times
              ELSE {}
         /\ Cardinality(FieldRows(f)) = Cardinality(FieldTimes(f))

\* C36, amended: after a historical call the database answered, every
\* requested monitored field whose value count equals the timestamp count has
\* one row per timestamp that parses as "2006-01-02T15:04" and none for a
\* timestamp that does not; a field with a misaligned length or an unknown
\* name has no row, wherever it stands in the list.
C36_RowPerParsedTimestamp ==
  (spc = "done" /\ stInitial /\ stFailAt = 0) =>
    \A i \in 1..Len(stFields) :
      LET f == stFields[i]
      IN /\ FieldTimes(f) =
              IF f \in KnownFields /\ ValueCount(f) = stForecast.times
              THEN (1..stForecast.times) \ stForecast.badTimes
              ELSE {}
         /\ Cardinality(FieldRows(f)) = Cardinality(FieldTimes(f))

C36_Witness ==
  /\ spc = "done"
  /\ stInitial
  /\ stFailAt = 0
  /\ stForecast.times = MaxTimes
  /\ Cardinality(stForecast.badTimes) = 1
  /\ Len(stFields) = 3
  /\ stFields[1] = "pressure_msl"
  /\ ValueCount(stFields[2]) = MaxTimes - 1
  /\ FieldRows(stFields[2]) = {}
  /\ Cardinality(FieldRows(stFields[3])) = MaxTimes - 1

\* C37: after a call for an envelope that is not historical, with the database
\* answering, there is no error, every requested monitored field with a value
\* has exactly one row, every other requested field has none, and all rows
\* carry the same timestamp.
C37_OneRowPerPresentField ==
  (spc = "done" /\ ~stInitial /\ stFailAt = 0) =>
    /\ ~stResult.err
    /\ \A i \in 1..Len(stFields) :
         Cardinality(FieldRows(stFields[i])) =
           IF stFields[i] \in KnownFields /\ stFields[i] \in stForecast.current
           THEN 1 ELSE 0
    /\ \A r \in stResult.table :
         /\ \E i \in 1..Len(stFields) : stFields[i] = r.field
         /\ \A q \in stResult.table : q.t = r.t

C37_Witness ==
  /\ spc = "done"
  /\ ~stInitial
  /\ stFailAt = 0
  /\ ~stResult.err
  /\ Len(stFields) = 3
  /\ stFields[1] = "pressure_msl"
  /\ stFields[2] \notin stForecast.current
  /\ Cardinality(stResult.table) = 1
  /\ \E r \in stResult.table : r.field = stFields[3]

\* ============================================ job ids of one Detector run
RunLocations == 1..NumRunLocations

\* the names of the locations table, distinct by its unique key; a name may
\* itself end in an underscore and digits
LocationNames ==
  << <<"a">>, <<"a", "_", "9">>, <<"a", "_", "9", "9">>, <<"b">> >>
LocationName(l) == LocationNames[l]

\* %d of a non-negative integer
DigitChars == <<"0", "1", "2", "3", "4", "5", "6", "7", "8", "9">>
RECURSIVE Digits(_)
Digits(n) ==
  IF n < 10 THEN <<DigitChars[n + 1]>>
  ELSE Digits(n \div 10) \o <<DigitChars[(n % 10) + 1]>>

\* fmt.Sprintf("%s_%d", location, time.Now().Unix())
JobIDOfSecond(name, second) == Digits(second)
JobID(name, second) == name \o <<"_">> \o Digits(second)

\* a second passes
RunTick ==
  /\ runClock < RunSecond + MaxTicks
  /\ runClock' = runClock + 1
  /\ UNCHANGED <<rpc, runJob, runCursor, requests, responses, answered,
                 accepted,
                 serviceVars, statsVars, suggestVars, seedVars, storeVars,
                 passVars>>

\* getMLAnomalies of location l up to the job id: the pass ends early on a
\* store error or too few metrics; otherwise the clock is read
RunStart(l) ==
  /\ rpc[l] = "start"
  /\ \E early \in BOOLEAN :
       IF early
       THEN /\ rpc' = [rpc EXCEPT ![l] = "done"]
            /\ UNCHANGED runJob
       ELSE /\ runJob' = [runJob EXCEPT ![l] = JobID(LocationName(l), runClock)]
            /\ rpc' = [rpc EXCEPT ![l] = "probe"]
  /\ UNCHANGED <<runClock, runCursor, requests, responses, answered, accepted,
                 serviceVars, statsVars, suggestVars, seedVars, storeVars,
                 passVars>>

\* XRevRangeN(ml_output, "+", "-", 1): lastID stays "0-0" on an error or an
\* empty reply
RunProbe(l) ==
  /\ rpc[l] = "probe"
  /\ \E ok \in BOOLEAN :
       runCursor' = [runCursor EXCEPT
                       ![l] = IF ok /\ responses # <<>>
                              THEN TailId(responses) ELSE 0]
  /\ rpc' = [rpc EXCEPT ![l] = "publish"]
  /\ UNCHANGED <<runClock, runJob, requests, responses, answered, accepted,
                 serviceVars, statsVars, suggestVars, seedVars, storeVars,
                 passVars>>

\* XAdd to ml_input; the pass ends on a failed publish
RunPublish(l) ==
  /\ rpc[l] = "publish"
  /\ \E ok \in BOOLEAN :
       IF ok
       THEN /\ requests' = Append(requests, [id |-> TailId(requests) + 1,
                                             job_id |-> runJob[l],
                                             location |-> l])
            /\ rpc' = [rpc EXCEPT ![l] = "wait"]
       ELSE /\ rpc' = [rpc EXCEPT ![l] = "done"]
            /\ UNCHANGED requests
  /\ UNCHANGED <<runClock, runJob, runCursor, responses, answered, accepted,
                 serviceVars, statsVars, suggestVars, seedVars, storeVars,
                 passVars>>

\* the ML worker answers the request of location l with a response of its
\* job_id
RunRespond(l) ==
  /\ l \notin answered
  /\ \E i \in 1..Len(requests) :
       /\ requests[i].location = l
       /\ responses' = Append(responses, [id |-> TailId(responses) + 1,
                                          job_id |-> requests[i].job_id])
  /\ answered' = answered \cup {l}
  /\ UNCHANGED <<runClock, rpc, runJob, runCursor, requests, accepted,
                 serviceVars, statsVars, suggestVars, seedVars, storeVars,
                 passVars>>

\* result.JobID == jobID: the first entry of ml_output after lastID that
\* carries the job id of the request
RunAccept(l) ==
  /\ rpc[l] = "wait"
  /\ LET unread == SelectSeq(responses, LAMBDA e : e.id > runCursor[l])
         matching == SelectSeq(unread, LAMBDA e : e.job_id = runJob[l])
     IN /\ matching # <<>>
        /\ accepted' = [accepted EXCEPT ![l] = @ \cup {Head(matching).id}]
  /\ rpc' = [rpc EXCEPT ![l] = "trimIn"]
  /\ UNCHANGED <<runClock, runJob, runCursor, requests, responses, answered,
                 serviceVars, statsVars, suggestVars, seedVars, storeVars,
                 passVars>>

\* XTrimMaxLen(ml_input, 500); the result is not looked at
RunTrimInput(l) ==
  /\ rpc[l] = "trimIn"
  /\ \E ok \in BOOLEAN :
       requests' = IF ok THEN XTrimMaxLen(requests, MLMaxLen) ELSE requests
  /\ rpc' = [rpc EXCEPT ![l] = "trimOut"]
  /\ UNCHANGED <<runClock, runJob, runCursor, responses, answered, accepted,
                 serviceVars, statsVars, suggestVars, seedVars, storeVars,
                 passVars>>

\* XTrimMaxLen(ml_output, 500); the result is not looked at
RunTrimOutput(l) ==
  /\ rpc[l] = "trimOut"
  /\ \E ok \in BOOLEAN :
       responses' = IF ok THEN XTrimMaxLen(responses, MLMaxLen) ELSE responses
  /\ rpc' = [rpc EXCEPT ![l] = "done"]
  /\ UNCHANGED <<runClock, runJob, runCursor, requests, answered, accepted,
                 serviceVars, statsVars, suggestVars, seedVars, storeVars,
                 passVars>>

\* case <-timeout
RunTimeout(l) ==
  /\ rpc[l] = "wait"
  /\ rpc' = [rpc EXCEPT ![l] = "done"]
  /\ UNCHANGED <<runClock, runJob, runCursor, requests, responses, answered,
                 accepted,
                 serviceVars, statsVars, suggestVars, seedVars, storeVars,
                 passVars>>

\* every location of GetAllLocations is sent to the job queue once
RunInit ==
  /\ CollectIdle
  /\ StreamEmpty
  /\ PersistIdle
  /\ MLIdle
  /\ DetectIdle
  /\ StatsIdle
  /\ SuggestIdle
  /\ SeedIdle
  /\ StoreIdle
  /\ PassIdle
  /\ runClock = RunSecond
  /\ rpc = [l \in RunLocations |-> "start"]
  /\ runJob = [l \in RunLocations |-> <<>>]
  /\ runCursor = [l \in RunLocations |-> 0]
  /\ requests = <<>>
  /\ responses = <<>>
  /\ answered = {}
  /\ accepted = [l \in RunLocations |-> {}]

RunNext ==
  \/ RunTick
  \/ \E l \in RunLocations : RunStart(l)
  \/ \E l \in RunLocations : RunProbe(l)
  \/ \E l \in RunLocations : RunPublish(l)
  \/ \E l \in RunLocations : RunRespond(l)
  \/ \E l \in RunLocations : RunAccept(l)
  \/ \E l \in RunLocations : RunTrimInput(l)
  \/ \E l \in RunLocations : RunTrimOutput(l)
  \/ \E l \in RunLocations : RunTimeout(l)

SpecRun == RunInit /\ [][RunNext]_vars

\* the requests of this run on ml_input
RunRequests == SelectSeq(requests, LAMBDA e : e.location \in RunLocations)

\* C33: no two requests published in one Detector run carry the same job_id,
\* and a response on ml_output is accepted by at most one job.
C33_UniqueJobIDs ==
  /\ \A i, j \in 1..Len(RunRequests) :
       i # j => RunRequests[i].job_id # RunRequests[j].job_id
  /\ \A k \in UNION {accepted[l] : l \in RunLocations} :
       Cardinality({l \in RunLocations : k \in accepted[l]}) <= 1

C33_Witness ==
  \E l1, l2 \in RunLocations :
    /\ l1 # l2
    /\ accepted[l1] # {}
    /\ accepted[l2] # {}
    /\ rpc[l1] = "done"
    /\ rpc[l2] = "done"
    /\ Len(requests) = 2
    /\ \E t \in RunSecond..(RunSecond + MaxTicks) :
         /\ runJob[l1] = JobID(LocationName(l1), t)
         /\ runJob[l2] = JobID(LocationName(l2), t)

\* ================================= one DetectAnomalies call and its write
\* the fraction of a second of a row stamped time.Now(), in microseconds
NowMicros == 250000

\* cfg.Weather.MonitoredFields
MonitoredFields == {"temperature_2m", "relative_humidity_2m"}

\* time.Now() of the call, in seconds, and the starts of the windows of the
\* queries: 24 hours, 7 days and 30 days before
SecondsPerDay == 24 * 3600
PassNow == [sec |-> 40 * SecondsPerDay, micro |-> 0]
Before(now, seconds) == [sec |-> now.sec - seconds, micro |-> now.micro]
RecentSince == Before(PassNow, SecondsPerDay)
BaselineSince == Before(PassNow, 7 * SecondsPerDay)
TrainingSince == Before(PassNow, 30 * SecondsPerDay)

\* the metrics table. Location 1 has h rows of an hourly series (whole
\* minutes), twelve hours apart, the newest twelve hours old; one row stamped
\* time.Now() by storeCurrentMetrics a minute ago; one row 31 days old; and
\* one row of a field that is not monitored. Location 2 has one row.
MetricsTable(h) ==
  {[location |-> 1, ts |-> [sec |-> PassNow.sec - 12 * 3600 * i, micro |-> 0],
    metricType |-> "temperature_2m"] : i \in 1..h}
  \cup {[location |-> 1,
         ts |-> [sec |-> PassNow.sec - 60, micro |-> NowMicros],
         metricType |-> "relative_humidity_2m"]}
  \cup {[location |-> 1,
         ts |-> [sec |-> PassNow.sec - 31 * SecondsPerDay, micro |-> 0],
         metricType |-> "temperature_2m"]}
  \cup {[location |-> 1, ts |-> [sec |-> PassNow.sec - 3600, micro |-> 0],
         metricType |-> "pressure_msl"]}
  \cup {[location |-> 2, ts |-> [sec |-> PassNow.sec - 7200, micro |-> 0],
         metricType |-> "temperature_2m"]}

NotEarlier(a, b) == a.sec > b.sec \/ (a.sec = b.sec /\ a.micro >= b.micro)

\* ORDER BY timestamp DESC
RECURSIVE NewestFirst(_)
NewestFirst(rows) ==
  IF rows = {} THEN <<>>
  ELSE LET m == CHOOSE r \in rows : \A q \in rows : NotEarlier(r.ts, q.ts)
       IN <<m>> \o NewestFirst(rows \ {m})

\* db.GetMetrics(location, metricTypes, since): WHERE location = ? AND
\* metric_type IN (...) AND timestamp >= ? ORDER BY timestamp DESC
GetMetrics(table, location, metricTypes, since) ==
  NewestFirst({r \in table : /\ r.location = location
                             /\ r.metricType \in metricTypes
                             /\ NotEarlier(r.ts, since)})

\* metricsByType[t]: the rows of a query result with the given metric type
RowsOfType(rows, t) == {r \in {rows[i] : i \in 1..Len(rows)} : r.metricType = t}

\* the rows the z-score test can flag: those of the last 24 hours whose
\* metric type has at least three rows in the last 7 days
RecentMetrics(table, location) ==
  LET baselineRows == GetMetrics(table, location, MonitoredFields, BaselineSince)
      recentRows == GetMetrics(table, location, MonitoredFields, RecentSince)
  IN {r \in {recentRows[i] : i \in 1..Len(recentRows)} :
        Cardinality(RowsOfType(baselineRows, r.metricType)) >= 3}

\* the subsets a pass or a response may flag
FlagSets(rows) == {F \in SUBSET rows : Cardinality(F) <= MaxFlagged}

\* t.Format(time.RFC3339): the text has no fraction of a second
FormatRFC3339(ts) == [second |-> ts.sec]

\* time.Parse(time.RFC3339, text)
ParseRFC3339(text) == [sec |-> text.second, micro |-> 0]

\* the entries of the request's metrics
MetricData(rows) ==
  [i \in 1..Len(rows) |-> [timestamp |-> FormatRFC3339(rows[i].ts),
                           metricType |-> rows[i].metricType]]

\* the Anomaly built from an entry of the response
ConvertMLAnomaly(location, a) ==
  [location |-> location, ts |-> ParseRFC3339(a.timestamp),
   metricType |-> a.metricType]

\* db.StoreAnomalies of the returned list
WriteResult(table, result, stored) ==
  IF stored THEN table \cup SeqToSet(result) ELSE table

\* the two calls of DetectAnomalies in the order it makes them:
\* getStatsAnomalies, then getMLAnomalies
PassOrderMLFirst == <<"ml", "stats">>
PassOrder == <<"stats", "ml">>

\* where DetectAnomalies goes when one of its calls has returned without an
\* error: to the other call, or to the append and the return
NextPass(p) == IF p = PassOrder[1] THEN PassOrder[2] ELSE "return"

\* return nil, fmt.Errorf(...)
PassError == [returned |-> TRUE, err |-> TRUE, anomalies |-> <<>>]

\* cfg.Weather.MonitoredFields, in the order of the configuration
FieldOrder == <<"temperature_2m", "relative_humidity_2m">>

\* the list getStatsAnomalies builds: for each monitored field in turn, the
\* flagged rows of the 24-hour query in the order of the query (newest first),
\* each copied with its timestamp and metric type
RECURSIVE StatsAnomalies(_, _, _, _)
StatsAnomalies(table, location, F, fields) ==
  IF fields = <<>> THEN <<>>
  ELSE LET rows == GetMetrics(table, location, {Head(fields)}, RecentSince)
           hit == SelectSeq(rows, LAMBDA r : r \in F)
       IN [i \in 1..Len(hit) |->
             [location |-> location, ts |-> hit[i].ts,
              metricType |-> hit[i].metricType]]
          \o StatsAnomalies(table, location, F, Tail(fields))

\* getStatsAnomalies returns: an error of a query ends DetectAnomalies, else
\* the z-score test has flagged some of the recent rows
StatsPass ==
  /\ apc = "stats"
  /\ statsReturned' = TRUE
  /\ \E dbOk \in BOOLEAN :
       IF ~dbOk
       THEN /\ apc' = "done"
            /\ passResult' = PassError
            /\ UNCHANGED statsFound
       ELSE /\ \E F \in FlagSets(RecentMetrics(observations, passLocation)) :
                 statsFound' = StatsAnomalies(observations, passLocation, F,
                                              FieldOrder)
            /\ apc' = NextPass("stats")
            /\ UNCHANGED passResult
  /\ UNCHANGED <<passLocation, observations, mlRequest, mlResponse, mlFound,
                 anomaliesWritten,
                 serviceVars, statsVars, suggestVars, seedVars, storeVars,
                 runVars>>

\* getMLAnomalies up to the XAdd: an error of the query or of the XAdd ends
\* DetectAnomalies; with too few metrics the pass returns its empty list
MLRequest ==
  /\ apc = "ml"
  /\ \E dbOk \in BOOLEAN, ok \in BOOLEAN :
       LET rows == GetMetrics(observations, passLocation, MonitoredFields,
                              TrainingSince)
       IN IF ~dbOk
          THEN /\ apc' = "done"
               /\ passResult' = PassError
               /\ UNCHANGED mlRequest
          ELSE IF TooFewMetrics(Len(rows))
          THEN /\ apc' = NextPass("ml")
               /\ UNCHANGED <<mlRequest, passResult>>
          ELSE IF ok
          THEN /\ mlRequest' = MetricData(rows)
               /\ apc' = "wait"
               /\ UNCHANGED passResult
          ELSE /\ apc' = "done"
               /\ passResult' = PassError
               /\ UNCHANGED mlRequest
  /\ UNCHANGED <<passLocation, observations, statsReturned, statsFound,
                 mlResponse, mlFound, anomaliesWritten,
                 serviceVars, statsVars, suggestVars, seedVars, storeVars,
                 runVars>>

\* the ML worker answers: its anomalies are entries of the request, in the
\* order of the request, with their timestamp and metric_type as sent
WorkerResponds ==
  /\ apc = "wait"
  /\ ~mlResponse.arrived
  /\ \E F \in FlagSets({mlRequest[i] : i \in 1..Len(mlRequest)}) :
       mlResponse' = [arrived |-> TRUE,
                      anomalies |-> SelectSeq(mlRequest, LAMBDA e : e \in F)]
  /\ UNCHANGED <<apc, passLocation, observations, statsReturned, statsFound,
                 mlRequest, mlFound, passResult, anomaliesWritten,
                 serviceVars, statsVars, suggestVars, seedVars, storeVars,
                 runVars>>

\* the matching response is converted entry by entry and getMLAnomalies
\* returns the list
AcceptResponse ==
  /\ apc = "wait"
  /\ mlResponse.arrived
  /\ mlFound' = [i \in 1..Len(mlResponse.anomalies) |->
                   ConvertMLAnomaly(passLocation, mlResponse.anomalies[i])]
  /\ apc' = NextPass("ml")
  /\ UNCHANGED <<passLocation, observations, statsReturned, statsFound,
                 mlRequest, mlResponse, passResult, anomaliesWritten,
                 serviceVars, statsVars, suggestVars, seedVars, storeVars,
                 runVars>>

\* case <-timeout: DetectAnomalies returns the error, nothing is stored
PassTimeout ==
  /\ apc = "wait"
  /\ apc' = "done"
  /\ passResult' = PassError
  /\ UNCHANGED <<passLocation, observations, statsReturned, statsFound,
                 mlRequest, mlResponse, mlFound, anomaliesWritten,
                 serviceVars, statsVars, suggestVars, seedVars, storeVars,
                 runVars>>

\* anomalies := append(stats_anomalies, ml_anomalies...); return anomalies, nil
ReturnAnomalies ==
  /\ apc = "return"
  /\ passResult' = [returned |-> TRUE, err |-> FALSE,
                    anomalies |-> Concat(statsFound, mlFound)]
  /\ apc' = "store"
  /\ UNCHANGED <<passLocation, observations, statsReturned, statsFound,
                 mlRequest, mlResponse, mlFound, anomaliesWritten,
                 serviceVars, statsVars, suggestVars, seedVars, storeVars,
                 runVars>>

\* the result loop hands the returned list to db.StoreAnomalies
WriteAnomalies ==
  /\ apc = "store"
  /\ \E stored \in BOOLEAN :
       anomaliesWritten' =
         WriteResult(anomaliesWritten, passResult.anomalies, stored)
  /\ apc' = "done"
  /\ UNCHANGED <<passLocation, observations, statsReturned, statsFound,
                 mlRequest, mlResponse, mlFound, passResult,
                 serviceVars, statsVars, suggestVars, seedVars, storeVars,
                 runVars>>

PassInit ==
  /\ CollectIdle
  /\ StreamEmpty
  /\ PersistIdle
  /\ MLIdle
  /\ DetectIdle
  /\ StatsIdle
  /\ SuggestIdle
  /\ SeedIdle
  /\ StoreIdle
  /\ RunIdle
  /\ apc = PassOrder[1]
  /\ passLocation \in {1, 2}
  /\ \E h \in {MinMLMetrics - 2, MinMLMetrics - 1} :
       observations = MetricsTable(h)
  /\ statsReturned = FALSE
  /\ statsFound = <<>>
  /\ mlRequest = <<>>
  /\ mlResponse = NoResponse
  /\ mlFound = <<>>
  /\ passResult = NoPassResult
  /\ anomaliesWritten = {}

PassNext ==
  \/ StatsPass
  \/ MLRequest
  \/ WorkerResponds
  \/ AcceptResponse
  \/ PassTimeout
  \/ ReturnAnomalies
  \/ WriteAnomalies

SpecPass == PassInit /\ [][PassNext]_vars

\* C34: every row of the anomalies table carries the location processed and
\* the timestamp and metric type of a row of the metrics table of that
\* location.
C34_AnomalyMatchesObservation ==
  \A a \in anomaliesWritten :
    /\ a.location = passLocation
    /\ \E o \in observations :
         /\ o.location = a.location
         /\ o.ts = a.ts
         /\ o.metricType = a.metricType

\* C29: within one location the statistical pass has returned before the ML
\* pass publishes its request, and a successful DetectAnomalies returns the
\* statistical anomalies followed by the ML anomalies, every one of them at
\* its place and none dropped or merged.
C29_StatsThenML ==
  /\ mlRequest # <<>> => statsReturned
  /\ (passResult.returned /\ ~passResult.err) =>
       /\ Len(passResult.anomalies) = Len(statsFound) + Len(mlFound)
       /\ \A i \in 1..Len(statsFound) : passResult.anomalies[i] = statsFound[i]
       /\ \A i \in 1..Len(mlFound) :
            passResult.anomalies[Len(statsFound) + i] = mlFound[i]

\* both passes flag the same hourly row: it is in the returned list twice
C29_Witness ==
  /\ apc = "done"
  /\ passResult.returned /\ ~passResult.err
  /\ mlRequest # <<>>
  /\ Len(statsFound) >= 1
  /\ Len(mlFound) >= 1
  /\ statsFound[1] = mlFound[1]
  /\ Len(passResult.anomalies) = Len(statsFound) + Len(mlFound)
  /\ anomaliesWritten = SeqToSet(passResult.anomalies)

====
